---- MODULE Spec2Model ----
(***************************************************************************)
(* A model of livesplit-renderer-glow: the GlowRenderer frame driver       *)
(* (render.rs), the per-path stroke cache (types.rs, allocator.rs) and the *)
(* per-image texture memo (render.rs, types.rs).                           *)
(*                                                                         *)
(* Rust's Option<T> is a sequence of length 0 (None) or 1 (Some).          *)
(* An Arc is a number: two Arcs are pointer-equal iff the numbers agree.   *)
(* f32 stroke widths are counted in quanta finer than f32::EPSILON, so     *)
(* that distinct widths closer than EPSILON exist.                         *)
(***************************************************************************)
EXTENDS Integers, Sequences, FiniteSets, TLC

(* ------------------------------ bounds -------------------------------- *)

\* Finite stroke widths are 0..MaxWidth quanta.
MaxWidth == 3
\* In the stroke-cache specification at most this many GlPath objects exist
\* (the path built plus its clones).
MaxPaths == 2
\* A stroke width at which lyon's stroke tessellator gives up on outline 2.
WidthHuge == 1000
\* Output surfaces are 0..MaxDim pixels wide, or too large.
MaxDim == 2
\* At most this many blurred background textures are created.
MaxBlurred == 2

\* At most this many GL calls of one GlowRenderer::new fail.
MaxFailures == 2

\* The threads that use the caches at once, and the set_stroke_cache calls
\* they make in all.
MaxThreads == 2
MaxWrites == 2

\* Vertex lists have at most MaxVertices vertices, with finite coordinates
\* in -MaxCoord..MaxCoord.
MaxVertices == 2
MaxCoord == 1

\* The byte sequences given to create_image: up to MaxBytes bytes of
\* 0..MaxByte.
MaxBytes == 6
MaxByte == 2

(* ------------------------- program constants -------------------------- *)

\* f32::EPSILON, in width quanta.
EPSILON == 2
\* u32::MAX.  A u32 is held as its 32-bit pattern read in two's complement:
\* the values above i32::MAX are the negative ones.
U32_MAX == -1
\* Alpha 1.0; alphas are counted in quarters.
ALPHA_ONE == 4

(* ------------------------------ helpers ------------------------------- *)

None == <<>>
Some(x) == <<x>>

Abs(x) == IF x < 0 THEN -x ELSE x

\* The widths a stroke can be asked at: the finite small ones and one huge
\* width, far from all of them.
Widths == (0..MaxWidth) \cup {WidthHuge}

(* ---------------------- types.rs: GlPath, stroke cache ----------------- *)

\* The outlines (lyon paths) of the model: 1 is the scene's unit rectangle,
\* 2 a closed shape or glyph outline.  An outline whose fill tessellation is
\* empty never becomes a GlPath (tessellate_path returns None): an entity or
\* glyph then carries an absent path.
Outlines == {1, 2}

\* A mesh buffer: the Arc that holds it and the geometry in it, which is the
\* tessellation of an outline as a fill (stroke = -1) or as a stroke of a
\* width.
Buffer(arc, outline, stroke) == [arc |-> arc, outline |-> outline, stroke |-> stroke]

\* GlPath::new: fresh Arcs around the fill mesh, an empty stroke cache.
\* The fill Arcs of outline k are Arc k.
new(outline) ==
    [vertices |-> Buffer(outline, outline, -1),
     indices |-> Buffer(outline, outline, -1),
     lyon_path |-> outline,
     stroke_cache |-> None]

from_arcs(vertices, indices, lyon_path) ==
    [vertices |-> vertices,
     indices |-> indices,
     lyon_path |-> lyon_path,
     stroke_cache |-> None]

\* Variants of cached_stroke: one that never finds an entry, one that takes
\* the entry whatever its width.
cached_stroke_absent(path, width) == None

\* A variant that compares the widths for exact equality.
cached_stroke_exact(path, width) ==
    IF path.stroke_cache = None
    THEN None
    ELSE LET c == path.stroke_cache[1]
         IN  IF c.width = width
             THEN Some([vertices |-> c.vertices, indices |-> c.indices])
             ELSE None

cached_stroke_any_width(path, width) ==
    IF path.stroke_cache = None
    THEN None
    ELSE Some([vertices |-> path.stroke_cache[1].vertices,
               indices |-> path.stroke_cache[1].indices])

cached_stroke(path, width) ==
    IF path.stroke_cache = None
    THEN None
    ELSE LET c == path.stroke_cache[1]
         IN  IF Abs(c.width - width) < EPSILON
             THEN Some([vertices |-> c.vertices, indices |-> c.indices])
             ELSE None

set_stroke_cache(path, width, vertices, indices) ==
    [path EXCEPT !.stroke_cache =
        Some([width |-> width, vertices |-> vertices, indices |-> indices])]

\* A variant of clone that copies the buffers into Arcs of its own.
clone_deep(path) ==
    [vertices |-> [path.vertices EXCEPT !.arc = @ + Cardinality(Outlines)],
     indices |-> [path.indices EXCEPT !.arc = @ + Cardinality(Outlines)],
     lyon_path |-> path.lyon_path,
     stroke_cache |-> None]

\* impl Clone for GlPath (lines 110-121): Arc::clone of the three Arcs, a
\* new and empty stroke cache.
clone(path) ==
    [vertices |-> path.vertices,
     indices |-> path.indices,
     lyon_path |-> path.lyon_path,
     stroke_cache |-> None]

share(path) == clone(path)

(* ------------------- allocator.rs: tessellate_stroke ------------------- *)

\* lyon's StrokeTessellator with the match on its result: TRUE when the
\* tessellation is Ok and its vertex list is not empty.  The tessellator is
\* a deterministic function of the outline and the width, and its outcome
\* is the same for widths closer than EPSILON (it fails only at WidthHuge).
StrokeTessellator(lyon_path, stroke_width) ==
    ~(lyon_path = 2 /\ stroke_width = WidthHuge)

\* A variant of tessellate_stroke that empties the cache when the
\* tessellation fails or yields no geometry.
tessellate_stroke_clearing(path, stroke_width, arc) ==
    LET hit == cached_stroke(path, stroke_width)
    IN  IF hit /= None
        THEN [path |-> path,
              ret |-> Some(from_arcs(hit[1].vertices, hit[1].indices, path.lyon_path)),
              tessellated |-> FALSE]
        ELSE IF StrokeTessellator(path.lyon_path, stroke_width)
             THEN LET verts == Buffer(arc, path.lyon_path, stroke_width)
                      idxs == Buffer(arc, path.lyon_path, stroke_width)
                  IN  [path |-> set_stroke_cache(path, stroke_width, verts, idxs),
                       ret |-> Some(from_arcs(verts, idxs, path.lyon_path)),
                       tessellated |-> TRUE]
             ELSE [path |-> [path EXCEPT !.stroke_cache = None],
                   ret |-> None, tessellated |-> TRUE]

\* What one call does: the path after it (its cache may be written), the
\* Option<GlPath> returned, and whether the tessellator ran.  `arc` is the
\* address Arc::new gives the new buffers on a miss.
tessellate_stroke(path, stroke_width, arc) ==
    LET hit == cached_stroke(path, stroke_width)
    IN  IF hit /= None
        THEN [path |-> path,
              ret |-> Some(from_arcs(hit[1].vertices, hit[1].indices, path.lyon_path)),
              tessellated |-> FALSE]
        ELSE IF StrokeTessellator(path.lyon_path, stroke_width)
             THEN LET verts == Buffer(arc, path.lyon_path, stroke_width)
                      idxs == Buffer(arc, path.lyon_path, stroke_width)
                  IN  [path |-> set_stroke_cache(path, stroke_width, verts, idxs),
                       ret |-> Some(from_arcs(verts, idxs, path.lyon_path)),
                       tessellated |-> TRUE]
             ELSE [path |-> path, ret |-> None, tessellated |-> TRUE]

Range(f) == {f[i] : i \in DOMAIN f}

\* The Arcs a set of GlPath values keeps alive.
ArcsOf(pathSet) ==
    UNION {{p.vertices.arc, p.indices.arc} \cup
           {c.vertices.arc : c \in Range(p.stroke_cache)} \cup
           {c.indices.arc : c \in Range(p.stroke_cache)}
           : p \in pathSet}

\* Arc::new: an address no live Arc has.  The buffers of GlPath object obj
\* are given the addresses 10 * obj + 1, 10 * obj + 2, ...: the least one
\* that neither its cache nor the caller's last result still holds.
FreshArc(obj, used) ==
    10 * obj + (CHOOSE n \in 1..(Cardinality(used) + 1) :
                   /\ (10 * obj + n) \notin used
                   /\ \A m \in 1..(n - 1) : (10 * obj + m) \in used)

\* One stroke request on GlPath object `obj` of `st.paths`, recorded:
\* st.paths, st.lastReq (each object's latest request and what it returned)
\* and st.strokeLog (the requests of the running operation, each with the
\* request on the same object that came immediately before it and the
\* object's cache before and after).
StrokeRequest(st, obj, stroke_width) ==
    LET path == st.paths[obj]
        held == UNION {Range(q.ret) : q \in Range(st.lastReq[obj])}
        arc == FreshArc(obj, ArcsOf({path}) \cup ArcsOf(held))
        r == tessellate_stroke(path, stroke_width, arc)
        entry == [obj |-> obj,
                  width |-> stroke_width,
                  prev |-> st.lastReq[obj],
                  tessellated |-> r.tessellated,
                  ret |-> r.ret,
                  before |-> path.stroke_cache,
                  after |-> r.path.stroke_cache]
    IN  [st EXCEPT !.paths[obj] = r.path,
                   !.lastReq[obj] = Some([width |-> stroke_width, ret |-> r.ret]),
                   !.strokeLog = Append(@, entry)]

(* ------------------------- the scene (external) ------------------------ *)

\* A color is 10 * rgb + alpha, alpha in quarters (0..ALPHA_ONE).
Color(rgb, alpha) == 10 * rgb + alpha
AlphaOf(color) == color % 10
RgbOf(color) == color \div 10

\* FillShader: type 0 = SolidColor(a), 1 = VerticalGradient(a, b),
\* 2 = HorizontalGradient(a, b).
SolidColor(color) == [type |-> 0, a |-> color, b |-> 0]
VerticalGradient(top, bottom) == [type |-> 1, a |-> top, b |-> bottom]
HorizontalGradient(left, right) == [type |-> 2, a |-> left, b |-> right]

\* A GlImage is an Arc of GlImageData: `data` is the Arc's address; `handle`
\* tells apart the clones that share it.
GlImage(handle, data) == [handle |-> handle, data |-> data]

\* A glyph of a label: Option<GlPath> as a GlPath object (0 = None) and an
\* Option of an override color.
Glyph(path, color) == [path |-> path, color |-> color]

\* Entity, with every field present in each variant.  `path` is a GlPath
\* object of `paths`, or 0 for an absent path (Option<GlPath> = None).
NoShader == SolidColor(0)
NoImage == GlImage(0, 0)
FillPath(path, shader) ==
    [kind |-> "FillPath", path |-> path, shader |-> shader, width |-> 0, color |-> 0,
     image |-> NoImage, glyphs |-> <<>>, shadow |-> None]
StrokePath(path, stroke_width, color) ==
    [kind |-> "StrokePath", path |-> path, shader |-> NoShader, width |-> stroke_width,
     color |-> color, image |-> NoImage, glyphs |-> <<>>, shadow |-> None]
Image(image) ==
    [kind |-> "Image", path |-> 0, shader |-> NoShader, width |-> 0, color |-> 0,
     image |-> image, glyphs |-> <<>>, shadow |-> None]
Label(glyphs, shader, text_shadow) ==
    [kind |-> "Label", path |-> 0, shader |-> shader, width |-> 0, color |-> 0,
     image |-> NoImage, glyphs |-> glyphs, shadow |-> text_shadow]

\* Background: a fill shader or an image with blur, brightness and opacity.
BackgroundShader(shader) ==
    [kind |-> "Shader", shader |-> shader, image |-> NoImage, blur |-> 0,
     brightness |-> 0, opacity |-> 0]
BackgroundImage(image, blur, brightness, opacity) ==
    [kind |-> "Image", shader |-> NoShader, image |-> image, blur |-> blur,
     brightness |-> brightness, opacity |-> opacity]

(* ----------------------- the GL context (external) --------------------- *)

\* What a draw call paints, told by the entity it renders: kind k and four
\* numbers.  A stroke mesh within EPSILON of the requested width paints the
\* picture of the requested width.
Pic(k, a, b, c, d) == [k |-> k, a |-> a, b |-> b, c |-> c, d |-> d]

\* The content of freshly allocated storage.
Undefined == Pic("undefined", 0, 0, 0, 0)

NoBuffer == Buffer(0, 0, 0)

Area(size) == size[1] * size[2]

\* The content of a render target: its size and the pictures painted over
\* the cleared target, in order.  A target without pixels holds nothing.
Picture(size, pics) == [size |-> size, pics |-> IF Area(size) = 0 THEN <<>> ELSE pics]

\* One GL call of a frame that clears, draws or resolves: the draw
\* framebuffer it writes, the read framebuffer (a resolve), the layer and
\* the entity it belongs to, the picture, the vertex buffer drawn and the
\* texture bound (0 = none).
Event(op, fb, src, layer, idx, pic, mesh, tex) ==
    [op |-> op, fb |-> fb, src |-> src, layer |-> layer, idx |-> idx,
     pic |-> pic, mesh |-> mesh, tex |-> tex]

\* The framebuffers: the renderer's two, the default framebuffer (None) and
\* one of the embedding application.
Framebuffers == {"fbo", "msaa", "default", "user"}

\* One step of render that is not a clear, draw or resolve: the resize, the
\* scene update or the read of the flag, with its argument and the number
\* of clears, draws and resolves issued before it.
Did(op, arg, at) == [op |-> op, arg |-> arg, at |-> at]

\* The renderer's long-lived texture: fbo_texture is GL texture 1.
FboTexture == [kind |-> "fbo", data |-> 0, blur |-> 0]

\* gl.bind_framebuffer(FRAMEBUFFER, fb) binds both targets.
bind_framebuffer(st, fb) == [st EXCEPT !.draw_fb = fb, !.read_fb = fb]
bind_read_framebuffer(st, fb) == [st EXCEPT !.read_fb = fb]
bind_draw_framebuffer(st, fb) == [st EXCEPT !.draw_fb = fb]

\* gl.clear(COLOR_BUFFER_BIT) after clear_color(0, 0, 0, 0).
clear(st) ==
    [st EXCEPT !.frame = Append(@, Event("clear", st.draw_fb, "", "", 0,
                                        Pic("", 0, 0, 0, 0), NoBuffer, 0)),
               !.target[st.draw_fb] = Picture(@.size, <<>>)]

\* gl.blit_framebuffer(0, 0, w, h, 0, 0, w, h, COLOR_BUFFER_BIT, NEAREST):
\* the read framebuffer's content replaces the draw framebuffer's.
blit_framebuffer(st, size) ==
    [st EXCEPT !.frame = Append(@, Event("resolve", st.draw_fb, st.read_fb, "", 0,
                                        Pic("", 0, 0, 0, 0), NoBuffer, 0)),
               !.target[st.draw_fb] =
                   Picture(IF st.draw_fb = "default" THEN size ELSE @.size,
                           st.target[st.read_fb].pics)]

\* gl.draw_elements on the bound draw framebuffer: one draw call.
draw_elements(st, layer, idx, pic, mesh, tex) ==
    [st EXCEPT !.frame = Append(@, Event("draw", st.draw_fb, "", layer, idx, pic, mesh, tex)),
               !.target[st.draw_fb] = Picture(@.size, Append(@.pics, pic))]

(* ------------------ render.rs: the entity renderer --------------------- *)

\* The scene's unit rectangle, scene.rectangle(), is GlPath object 1; its
\* tessellation is never absent.
Rectangle == 1

\* upload_and_draw: streams the path's buffers and draws them.
upload_and_draw(st, path, layer, idx, pic, tex) ==
    draw_elements(st, layer, idx, pic, path.vertices, tex)

\* draw_path: program, transform and shader uniforms, then the draw.  `kind`
\* stands for the transform and `n` for the stroke width the mesh was asked
\* at (-1: a fill mesh).
draw_path(st, path, shader, kind, n, layer, idx) ==
    upload_and_draw(st, path, layer, idx,
                    Pic(kind, path.lyon_path, n, 10 * shader.a + shader.type, shader.b), 0)

\* A variant of ensure_texture that uploads on every call.
ensure_texture_upload(st, image) ==
    LET texture == Len(st.textures) + 1
    IN  [st |-> [st EXCEPT
                   !.textures = Append(@, [kind |-> "image", data |-> image.data,
                                           blur |-> 0]),
                   !.uploads[image.data] = @ + 1,
                   !.images[image.data].texture = Some(texture)],
         texture |-> texture]

\* ensure_texture: the image's texture, uploaded on the first call.
ensure_texture(st, image) ==
    LET data == st.images[image.data]
    IN  IF data.texture /= None
        THEN [st |-> st, texture |-> data.texture[1]]
        ELSE LET texture == Len(st.textures) + 1
             IN  [st |-> [st EXCEPT
                            !.textures = Append(@, [kind |-> "image", data |-> image.data,
                                                    blur |-> 0]),
                            !.uploads[image.data] = @ + 1,
                            !.images[image.data].texture = Some(texture)],
                  texture |-> texture]

\* One call of get_or_create_blurred_texture: the image handle and the
\* GlImageData it points to, the blur, the texture returned and whether the
\* call blurred on the CPU and uploaded.
BlurRequest(image, blur_value, texture, uploaded) ==
    [handle |-> image.handle, source |-> image.data, blur_value |-> blur_value,
     texture |-> texture, uploaded |-> uploaded]

\* A variant of get_or_create_blurred_texture that stores the texture it
\* creates in blur_cache.
get_or_create_blurred_texture_cached(st, image, blur_value) ==
    IF /\ st.blur_cache /= None
       /\ st.blur_cache[1].source_ptr = image.data
       /\ Abs(st.blur_cache[1].blur_value - blur_value) < EPSILON
    THEN [st |-> [st EXCEPT !.blurLog =
                               Append(@, BlurRequest(image, blur_value,
                                                     st.blur_cache[1].texture, FALSE))],
          texture |-> st.blur_cache[1].texture]
    ELSE LET texture == Len(st.textures) + 1
         IN  [st |-> [st EXCEPT
                        !.textures = Append(@, [kind |-> "blur", data |-> image.data,
                                                blur |-> blur_value]),
                        !.blur_cache = Some([source_ptr |-> image.data,
                                             blur_value |-> blur_value,
                                             texture |-> texture]),
                        !.blurLog = Append(@, BlurRequest(image, blur_value, texture,
                                                          TRUE))],
              texture |-> texture]

\* get_or_create_blurred_texture: the cached texture when blur_cache
\* matches; else a CPU blur and a new texture, which is not cached (the
\* method holds &self).
get_or_create_blurred_texture(st, image, blur_value) ==
    IF /\ st.blur_cache /= None
       /\ st.blur_cache[1].source_ptr = image.data
       /\ Abs(st.blur_cache[1].blur_value - blur_value) < EPSILON
    THEN [st |-> [st EXCEPT !.blurLog =
                               Append(@, BlurRequest(image, blur_value,
                                                     st.blur_cache[1].texture, FALSE))],
          texture |-> st.blur_cache[1].texture]
    ELSE LET texture == Len(st.textures) + 1
         IN  [st |-> [st EXCEPT
                        !.textures = Append(@, [kind |-> "blur", data |-> image.data,
                                                blur |-> blur_value]),
                        !.blurLog = Append(@, BlurRequest(image, blur_value, texture,
                                                          TRUE))],
              texture |-> texture]

\* A textured quad: the scene's rectangle drawn with `texture` bound and the
\* brightness and opacity uniforms set.  Kind "image" is the quad with
\* flip_uv_y = 0 (lines 656, 799); blit_fbo's quad, flip_uv_y = 1, is "cache".
TexturedQuad(st, texture, kind, brightness, opacity, layer, idx) ==
    LET t == st.textures[texture]
    IN  upload_and_draw(st, st.paths[Rectangle], layer, idx,
                        Pic(kind, t.data, t.blur, brightness, opacity), texture)

draw_image(st, image, layer, idx) ==
    LET r == ensure_texture(st, image)
    IN  TexturedQuad(r.st, r.texture, "image", ALPHA_ONE, ALPHA_ONE, layer, idx)

\* A variant of draw_background_image that ignores the blur.
draw_background_image_unblurred(st, bg_image, layer) ==
    LET r == ensure_texture(st, bg_image.image)
    IN  TexturedQuad(r.st, r.texture, "image", bg_image.brightness, bg_image.opacity,
                     layer, 0)

\* draw_background_image (lines 768-813).
draw_background_image(st, bg_image, layer) ==
    LET r == IF bg_image.blur > 0
             THEN get_or_create_blurred_texture(st, bg_image.image, bg_image.blur)
             ELSE ensure_texture(st, bg_image.image)
    IN  TexturedQuad(r.st, r.texture, "image", bg_image.brightness, bg_image.opacity,
                     layer, 0)

render_background(st, background, layer) ==
    IF background.kind = "Shader"
    THEN draw_path(st, st.paths[Rectangle], background.shader, "full", -1, layer, 0)
    ELSE draw_background_image(st, background, layer)

\* A variant of DrawGlyphs that gives up the pass at the first glyph
\* without a path.
RECURSIVE DrawGlyphsUntilAbsent(_, _, _, _, _, _, _)
DrawGlyphsUntilAbsent(st, glyphs, i, pass, shader, layer, idx) ==
    IF i > Len(glyphs) \/ glyphs[i].path = 0
    THEN st
    ELSE LET glyph == glyphs[i]
             glyph_shader == IF pass = "glyph" /\ glyph.color /= None
                             THEN SolidColor(glyph.color[1])
                             ELSE shader
         IN  DrawGlyphsUntilAbsent(draw_path(st, st.paths[glyph.path], glyph_shader, pass,
                                             -1, layer, idx),
                                   glyphs, i + 1, pass, shader, layer, idx)

\* One pass of draw_label over the glyphs from the i-th on: the shadow pass
\* (every glyph in shadow_shader, shifted by SHADOW_OFFSET) or the glyph
\* pass (each glyph in its own color or the label's shader).
RECURSIVE DrawGlyphs(_, _, _, _, _, _, _)
DrawGlyphs(st, glyphs, i, pass, shader, layer, idx) ==
    IF i > Len(glyphs)
    THEN st
    ELSE LET glyph == glyphs[i]
             glyph_shader == IF pass = "glyph" /\ glyph.color /= None
                             THEN SolidColor(glyph.color[1])
                             ELSE shader
             drawn == IF glyph.path /= 0
                      THEN draw_path(st, st.paths[glyph.path], glyph_shader, pass, -1,
                                     layer, idx)
                      ELSE st
         IN  DrawGlyphs(drawn, glyphs, i + 1, pass, shader, layer, idx)

\* A variant of LabelAlpha that takes a gradient's first alpha.
LabelAlphaFirst(shader) == AlphaOf(shader.a)

\* The label's alpha: the fill alpha, or the mean of a gradient's two.
LabelAlpha(shader) ==
    IF shader.type = 0
    THEN AlphaOf(shader.a)
    ELSE (AlphaOf(shader.a) + AlphaOf(shader.b)) \div 2

\* A variant of draw_label that draws the glyphs before their shadows.
draw_label_glyphs_first(st, glyphs, shader, text_shadow, layer, idx) ==
    LET drawn == DrawGlyphs(st, glyphs, 1, "glyph", shader, layer, idx)
    IN  IF text_shadow /= None
        THEN LET shadow_color == text_shadow[1]
                 shadow_rgba == Color(RgbOf(shadow_color),
                                      (AlphaOf(shadow_color) * LabelAlpha(shader))
                                          \div ALPHA_ONE)
             IN  DrawGlyphs(drawn, glyphs, 1, "shadow", SolidColor(shadow_rgba), layer, idx)
        ELSE drawn

\* draw_label (lines 576-626): the shadow pass if the label has a shadow,
\* then the glyph pass.
draw_label(st, glyphs, shader, text_shadow, layer, idx) ==
    LET shadowed ==
            IF text_shadow /= None
            THEN LET shadow_color == text_shadow[1]
                     shadow_rgba == Color(RgbOf(shadow_color),
                                          (AlphaOf(shadow_color) * LabelAlpha(shader))
                                              \div ALPHA_ONE)
                 IN  DrawGlyphs(st, glyphs, 1, "shadow", SolidColor(shadow_rgba), layer, idx)
            ELSE st
    IN  DrawGlyphs(shadowed, glyphs, 1, "glyph", shader, layer, idx)

\* A variant of render_entity that fills the shape when its stroke has no
\* geometry.
render_entity_fill(st, entity, layer, idx) ==
    CASE entity.kind = "FillPath" ->
            IF entity.path /= 0
            THEN draw_path(st, st.paths[entity.path], entity.shader, "entity", -1, layer, idx)
            ELSE st
      [] entity.kind = "StrokePath" ->
            IF entity.path /= 0
            THEN LET asked == StrokeRequest(st, entity.path, entity.width)
                     stroked == asked.strokeLog[Len(asked.strokeLog)].ret
                 IN  IF stroked /= None
                     THEN draw_path(asked, stroked[1], SolidColor(entity.color), "entity",
                                    entity.width, layer, idx)
                     ELSE draw_path(asked, asked.paths[entity.path],
                                    SolidColor(entity.color), "entity", -1, layer, idx)
            ELSE st
      [] entity.kind = "Image" -> draw_image(st, entity.image, layer, idx)
      [] entity.kind = "Label" ->
            draw_label(st, entity.glyphs, entity.shader, entity.shadow, layer, idx)

render_entity(st, entity, layer, idx) ==
    CASE entity.kind = "FillPath" ->
            IF entity.path /= 0
            THEN draw_path(st, st.paths[entity.path], entity.shader, "entity", -1, layer, idx)
            ELSE st
      [] entity.kind = "StrokePath" ->
            IF entity.path /= 0
            THEN LET asked == StrokeRequest(st, entity.path, entity.width)
                     stroked == asked.strokeLog[Len(asked.strokeLog)].ret
                 IN  IF stroked /= None
                     THEN draw_path(asked, stroked[1], SolidColor(entity.color), "entity",
                                    entity.width, layer, idx)
                     ELSE asked
            ELSE st
      [] entity.kind = "Image" -> draw_image(st, entity.image, layer, idx)
      [] entity.kind = "Label" ->
            draw_label(st, entity.glyphs, entity.shader, entity.shadow, layer, idx)

\* for entity in layer { render_entity(entity) }, from the i-th entity on.
RECURSIVE RenderLayer(_, _, _, _)
RenderLayer(st, entities, i, layer) ==
    IF i > Len(entities)
    THEN st
    ELSE RenderLayer(render_entity(st, entities[i], layer, i), entities, i + 1, layer)

(* ------------ render.rs, shaders.rs: construction and teardown --------- *)

\* The GL objects GlowRenderer owns for its whole life, by field name.
LongLived ==
    {"path_program", "image_program", "vao", "vbo", "ebo", "fbo", "fbo_texture",
     "msaa_fbo", "msaa_rbo"}

\* The shader objects compile_program creates on the way.
Shaders == {"path_vs", "path_fs", "image_vs", "image_fs"}

\* No GL object created yet: per object, the create and delete calls so far.
NoObjects == [o \in LongLived \cup Shaders |-> [created |-> 0, deleted |-> 0]]

\* gl.create_*(): one more object of that name.
create(objects, object) == [objects EXCEPT ![object].created = @ + 1]

\* gl.delete_*(object).
delete(objects, object) == [objects EXCEPT ![object].deleted = @ + 1]

\* Result<_, String>.
Ok == [ok |-> TRUE, err |-> ""]
Err(e) == [ok |-> FALSE, err |-> e]

\* The GL calls of `new` that can fail: creating an object, compiling a
\* shader stage, linking a program.
Steps ==
    {<<"create", o>> : o \in LongLived \cup Shaders}
        \cup {<<"compile", s>> : s \in Shaders}
        \cup {<<"link", p>> : p \in {"path_program", "image_program"}}

\* compile_shader: `failing` are the GL calls the driver fails.
compile_shader(objects, failing, shader) ==
    IF <<"create", shader>> \in failing
    THEN [objects |-> objects, result |-> Err("create_shader")]
    ELSE IF <<"compile", shader>> \in failing
         THEN [objects |-> delete(create(objects, shader), shader),
               result |-> Err("Shader compile error")]
         ELSE [objects |-> create(objects, shader), result |-> Ok]

\* A variant of compile_program that does not look at the link status.
compile_program_unchecked(objects, failing, program, vs, fs) ==
    IF <<"create", program>> \in failing
    THEN [objects |-> objects, result |-> Err("create_program")]
    ELSE LET v == compile_shader(create(objects, program), failing, vs)
         IN  IF ~v.result.ok
             THEN v
             ELSE LET f == compile_shader(v.objects, failing, fs)
                  IN  IF ~f.result.ok
                      THEN f
                      ELSE [objects |-> delete(delete(f.objects, vs), fs), result |-> Ok]

\* compile_program: the program, the vertex stage, the fragment stage, the
\* link; the stages are deleted on both outcomes of the link.
compile_program(objects, failing, program, vs, fs) ==
    IF <<"create", program>> \in failing
    THEN [objects |-> objects, result |-> Err("create_program")]
    ELSE LET v == compile_shader(create(objects, program), failing, vs)
         IN  IF ~v.result.ok
             THEN v
             ELSE LET f == compile_shader(v.objects, failing, fs)
                  IN  IF ~f.result.ok
                      THEN f
                      ELSE IF <<"link", program>> \in failing
                           THEN [objects |-> delete(delete(delete(f.objects, program), vs),
                                                    fs),
                                 result |-> Err("Program link error")]
                           ELSE [objects |-> delete(delete(f.objects, vs), fs),
                                 result |-> Ok]

\* Lines 259-294 of new, in order: create_vertex_array()?, create_buffer()?
\* twice, create_framebuffer()?, create_texture()?, create_framebuffer()?,
\* create_renderbuffer()?.
Created == <<"vao", "vbo", "ebo", "fbo", "fbo_texture", "msaa_fbo", "msaa_rbo">>

RECURSIVE CreateFrom(_, _, _)
CreateFrom(objects, failing, i) ==
    IF i > Len(Created)
    THEN [objects |-> objects, result |-> Ok]
    ELSE IF <<"create", Created[i]>> \in failing
         THEN [objects |-> objects, result |-> Err(Created[i])]
         ELSE CreateFrom(create(objects, Created[i]), failing, i + 1)

\* GlowRenderer::new.
GlowRendererNew(failing) ==
    LET path == compile_program(NoObjects, failing, "path_program", "path_vs", "path_fs")
    IN  IF ~path.result.ok
        THEN path
        ELSE LET image == compile_program(path.objects, failing, "image_program",
                                          "image_vs", "image_fs")
             IN  IF ~image.result.ok
                 THEN image
                 ELSE CreateFrom(image.objects, failing, 1)

\* A variant of destroy that also deletes every texture an image handle or
\* a blurred background refers to.
destroy_textures(st) ==
    [st EXCEPT
       !.objects = [o \in DOMAIN @ |-> IF o \in LongLived THEN delete(@, o)[o] ELSE @[o]],
       !.deleted_textures = DOMAIN st.textures]

\* GlowRenderer::destroy: the nine long-lived objects (fbo_texture is GL
\* texture 1) and the blur cache's texture.
destroy(st) ==
    [st EXCEPT
       !.objects = [o \in DOMAIN @ |-> IF o \in LongLived THEN delete(@, o)[o] ELSE @[o]],
       !.deleted_textures =
           @ \cup {1} \cup (IF st.blur_cache /= None
                            THEN {st.blur_cache[1].texture}
                            ELSE {})]

(* --------------------- render.rs: the frame driver --------------------- *)

\* A variant of gl_size that reinterprets the bits instead of checking.
gl_size_wrapping(value) == Some(value)

\* The largest power of two below which every u32 is an f32.
MANTISSA == 16777216

\* `value as f32`: exact up to 2^24, rounded to an even multiple of two up
\* to 2^25 (round to nearest, ties to even).
AsF32(value) ==
    IF value <= MANTISSA
    THEN value
    ELSE IF value % 2 = 0
         THEN value
         ELSE IF (value \div 2) % 2 = 0 THEN value - 1 ELSE value + 1

\* Line 340: resolution = [width as f32, height as f32].
Resolution(size) == <<AsF32(size[1]), AsF32(size[2])>>

\* gl_size: i32::try_from(value), None standing for the panic.
gl_size(value) == IF value < 0 THEN None ELSE Some(value)

\* A variant of resize_fbo that creates the resolve texture and the MSAA
\* renderbuffer anew on each resize.
resize_fbo_create(st, size) ==
    [st EXCEPT !.target["fbo"] = Picture(size, <<Undefined>>),
               !.target["msaa"] = Picture(size, <<Undefined>>),
               !.draw_fb = "default",
               !.read_fb = "default",
               !.fbo_size = size,
               !.objects = create(create(@, "fbo_texture"), "msaa_rbo"),
               !.log = Append(@, Did("resize_fbo", size, Len(st.frame)))]

\* A variant of resize_fbo that leaves the MSAA renderbuffer's storage as
\* it is.
resize_fbo_texture_only(st, size) ==
    [st EXCEPT !.target["fbo"] = Picture(size, <<Undefined>>),
               !.draw_fb = "default",
               !.read_fb = "default",
               !.fbo_size = size,
               !.log = Append(@, Did("resize_fbo", size, Len(st.frame)))]

\* resize_fbo, after its two gl_size calls: new storage for fbo_texture
\* and msaa_rbo (content undefined), the default framebuffer left bound.
resize_fbo(st, size) ==
    [st EXCEPT !.target["fbo"] = Picture(size, <<Undefined>>),
               !.target["msaa"] = Picture(size, <<Undefined>>),
               !.draw_fb = "default",
               !.read_fb = "default",
               !.fbo_size = size,
               !.log = Append(@, Did("resize_fbo", size, Len(st.frame)))]

\* A variant of the size test that never sees a change.
SizeUnchanged(fbo_size, size) == FALSE

\* Line 343: whether the render targets are resized.
SizeChanged(fbo_size, size) == fbo_size /= size

\* A variant of lines 343-346 that resizes without marking the bottom
\* layer dirty.
EnsureFboSizeOnly(st, size) ==
    IF SizeChanged(st.fbo_size, size) THEN resize_fbo(st, size) ELSE st

\* Lines 343-346.
EnsureFboSize(st, size) ==
    IF SizeChanged(st.fbo_size, size)
    THEN [resize_fbo(st, size) EXCEPT !.bottom_layer_dirty = TRUE]
    ELSE st

\* A variant of line 366 that renders the bottom layer on every frame.
AlwaysBottomLayer(bottom_layer_changed, bottom_layer_dirty) == TRUE

\* Line 366: whether the bottom layer is rendered again.
NeedsBottomLayer(bottom_layer_changed, bottom_layer_dirty) ==
    bottom_layer_changed \/ bottom_layer_dirty

\* Lines 383-399: resolve the MSAA framebuffer into the cached texture.
ResolveToCache(st, size) ==
    blit_framebuffer(bind_draw_framebuffer(bind_read_framebuffer(st, "msaa"), "fbo"), size)

\* A variant of the bottom-layer block that leaves the dirty flag as it is.
RenderBottomLayerStaysDirty(st, scene, size) ==
    LET cleared == clear(bind_framebuffer(st, "msaa"))
        bg == IF scene.background /= None
              THEN render_background(cleared, scene.background[1], "background")
              ELSE cleared
        drawn == RenderLayer(bg, scene.bottom_layer, 1, "bottom")
    IN  ResolveToCache(drawn, size)

\* Lines 367-401: the bottom layer into the MSAA framebuffer, resolved into
\* the cached texture.
RenderBottomLayer(st, scene, size) ==
    LET cleared == clear(bind_framebuffer(st, "msaa"))
        bg == IF scene.background /= None
              THEN render_background(cleared, scene.background[1], "background")
              ELSE cleared
        drawn == RenderLayer(bg, scene.bottom_layer, 1, "bottom")
    IN  [ResolveToCache(drawn, size) EXCEPT !.bottom_layer_dirty = FALSE]

\* blit_fbo: the cached texture as a full-surface quad, V flipped.  The
\* quad paints what the texture holds.
RECURSIVE PaintAll(_, _, _)
PaintAll(picture, pics, i) ==
    IF i > Len(pics)
    THEN picture
    ELSE PaintAll(Picture(picture.size, Append(picture.pics, pics[i])), pics, i + 1)

blit_fbo(st) ==
    [st EXCEPT !.frame = Append(@, Event("draw", st.draw_fb, "", "blit", 0,
                                        Pic("cache", 0, 0, 0, 0),
                                        st.paths[Rectangle].vertices, 1)),
               !.target[st.draw_fb] = PaintAll(@, st.target["fbo"].pics, 1),
               !.sampled = Some(st.target["fbo"])]

\* Lines 420-435: resolve the MSAA framebuffer to the default framebuffer.
ResolveToScreen(st, size) ==
    blit_framebuffer(bind_draw_framebuffer(bind_read_framebuffer(st, "msaa"), "default"),
                     size)

\* Variants of the composition step: one that resolves to the output before
\* the top layer is drawn, one that does not clear the working target.
CompositeResolveFirst(st, scene, size) ==
    LET cleared == clear(bind_framebuffer(st, "msaa"))
        blitted == blit_fbo(cleared)
        resolved == ResolveToScreen(blitted, size)
    IN  RenderLayer(bind_framebuffer(resolved, "msaa"), scene.top_layer, 1, "top")

CompositeNoClear(st, scene, size) ==
    LET blitted == blit_fbo(bind_framebuffer(st, "msaa"))
        drawn == RenderLayer(blitted, scene.top_layer, 1, "top")
    IN  ResolveToScreen(drawn, size)

\* A variant of the composition step that draws the top layer with the
\* cached texture's framebuffer bound.
CompositeIntoCache(st, scene, size) ==
    LET cleared == clear(bind_framebuffer(st, "msaa"))
        blitted == blit_fbo(cleared)
        drawn == RenderLayer(bind_framebuffer(blitted, "fbo"), scene.top_layer, 1, "top")
    IN  ResolveToScreen(drawn, size)

\* A variant of the composition step that returns early, without the
\* resolve, when the scene has no top-layer entity.
CompositeEarlyReturn(st, scene, size) ==
    LET cleared == clear(bind_framebuffer(st, "msaa"))
        blitted == blit_fbo(cleared)
        drawn == RenderLayer(blitted, scene.top_layer, 1, "top")
    IN  IF scene.top_layer = <<>> THEN blitted ELSE ResolveToScreen(drawn, size)

\* Lines 404-438: the composition step.
Composite(st, scene, size) ==
    LET cleared == clear(bind_framebuffer(st, "msaa"))
        blitted == blit_fbo(cleared)
        drawn == RenderLayer(blitted, scene.top_layer, 1, "top")
    IN  ResolveToScreen(drawn, size)

\* A variant of the scene update that drops the preferred resolution.
update_scene_dropped(st, resolution, new_resolution) ==
    [st EXCEPT !.log = Append(@, Did("update_scene",
                                     [resolution |-> resolution,
                                      new_resolution |-> new_resolution],
                                     Len(st.frame))),
               !.returned = None]

\* Lines 348-350: scene_manager.update_scene(allocator, resolution, state,
\* image_cache), which returns new_resolution; render returns it at line 440.
update_scene(st, resolution, new_resolution) ==
    [st EXCEPT !.log = Append(@, Did("update_scene",
                                     [resolution |-> resolution,
                                      new_resolution |-> new_resolution],
                                     Len(st.frame))),
               !.returned = new_resolution]

\* Line 353: bottom_layer_changed = scene.bottom_layer_changed().
ReadBottomLayerChanged(st, scene) ==
    [st EXCEPT !.log = Append(@, Did("bottom_layer_changed", scene.bottom_layer_changed,
                                     Len(st.frame)))]

\* Line 366: the read of self.bottom_layer_dirty.
ReadBottomLayerDirty(st) ==
    [st EXCEPT !.log = Append(@, Did("bottom_layer_dirty", st.bottom_layer_dirty,
                                     Len(st.frame)))]

\* A variant of render that composites before it renders the bottom layer.
RenderSceneCompositeFirst(st, scene, size) ==
    LET composed == Composite(st, scene, size)
    IN  IF NeedsBottomLayer(scene.bottom_layer_changed, st.bottom_layer_dirty)
        THEN RenderBottomLayer(composed, scene, size)
        ELSE composed

\* render, from the read of the scene's flag on (lines 352-440), for a size
\* gl_size accepts.
RenderScene(st, scene, size) ==
    LET read == ReadBottomLayerDirty(ReadBottomLayerChanged(st, scene))
        bottom == IF NeedsBottomLayer(scene.bottom_layer_changed, read.bottom_layer_dirty)
                  THEN RenderBottomLayer(read, scene, size)
                  ELSE read
    IN  Composite(bottom, scene, size)

(* ---------------------- allocator.rs: create_image --------------------- *)

\* The image decoder (external: image::load_from_memory).  The model's file
\* format is a width byte, a height byte and one gray byte per pixel, row by
\* row; a sequence of any other shape, or of an image without pixels, fails
\* to decode.
Decodes(data) ==
    /\ Len(data) >= 2
    /\ data[1] >= 1
    /\ data[2] >= 1
    /\ Len(data) = 2 + data[1] * data[2]

load_from_memory(data) ==
    IF Decodes(data)
    THEN Some([width |-> data[1], height |-> data[2],
               pixels |-> SubSeq(data, 3, Len(data))])
    ELSE None

\* DynamicImage::to_rgba8 (external): four bytes per pixel, a gray value in
\* the three color channels and full alpha.
RECURSIVE Rgba8(_, _)
Rgba8(pixels, i) ==
    IF i > Len(pixels)
    THEN <<>>
    ELSE <<pixels[i], pixels[i], pixels[i], MaxByte>> \o Rgba8(pixels, i + 1)

to_rgba8(img) ==
    [width |-> img.width, height |-> img.height, raw |-> Rgba8(img.pixels, 1)]

RECURSIVE Gcd(_, _)
Gcd(a, b) == IF b = 0 THEN a ELSE Gcd(b, a % b)

\* The f32 quotient a / b of two positive whole f32 values, as a fraction in
\* lowest terms.
Quotient(a, b) == <<a \div Gcd(a, b), b \div Gcd(a, b)>>

\* A variant of create_image whose aspect ratio is height / width.
create_image_inverse_ratio(data) ==
    LET decoded == load_from_memory(data)
    IN  IF decoded = None
        THEN None
        ELSE LET img == to_rgba8(decoded[1])
             IN  Some([pixels |-> img.raw,
                       width |-> img.width,
                       height |-> img.height,
                       aspect_ratio |-> Quotient(AsF32(img.height), AsF32(img.width)),
                       texture |-> None])

\* GlAllocator::create_image (lines 163-178): None if the decoder fails,
\* else the GlImageData behind the GlImage returned.
create_image(data) ==
    LET decoded == load_from_memory(data)
    IN  IF decoded = None
        THEN None
        ELSE LET img == to_rgba8(decoded[1])
             IN  Some([pixels |-> img.raw,
                       width |-> img.width,
                       height |-> img.height,
                       aspect_ratio |-> Quotient(AsF32(img.width), AsF32(img.height)),
                       texture |-> None])

(* ----------------------- render.rs: vertex_bounds ---------------------- *)

\* f32 values are integers between the two infinities.
INFINITY == MaxCoord + 1
NEG_INFINITY == -INFINITY

\* f32::min, f32::max.
Min(a, b) == IF a < b THEN a ELSE b
Max(a, b) == IF a > b THEN a ELSE b

\* A Vertex is its position [x, y]; `axis` indexes it from 0.
Coordinate(v, axis) == v[axis + 1]

\* The loop of vertex_bounds from the i-th vertex on.
RECURSIVE BoundsFrom(_, _, _, _, _)
BoundsFrom(vertices, axis, i, min, max) ==
    IF i > Len(vertices)
    THEN [min |-> min, max |-> max]
    ELSE LET val == Coordinate(vertices[i], axis)
         IN  BoundsFrom(vertices, axis, i + 1, Min(min, val), Max(max, val))

\* A variant of vertex_bounds that reads the other axis.
vertex_bounds_other_axis(vertices, axis) ==
    LET r == BoundsFrom(vertices, 1 - axis, 1, INFINITY, NEG_INFINITY)
    IN  IF r.max < r.min THEN <<0, 0>> ELSE <<r.min, r.max>>

vertex_bounds(vertices, axis) ==
    LET r == BoundsFrom(vertices, axis, 1, INFINITY, NEG_INFINITY)
    IN  IF r.max < r.min THEN <<0, 0>> ELSE <<r.min, r.max>>

(* ------------------------ std::sync::RwLock ---------------------------- *)

\* A lock nobody holds.
Unlocked == [readers |-> {}, writer |-> None]

\* A variant of the read lock that lets a reader in beside a writer.
CanReadAlways(lock) == TRUE

\* RwLock::read returns when no writer holds the lock.
CanRead(lock) == lock.writer = None

\* A variant of the write lock that lets a writer in beside a writer.
CanWriteAlways(lock) == lock.readers = {}

\* RwLock::write returns when nobody holds the lock.
CanWrite(lock) == lock.writer = None /\ lock.readers = {}

(* ------------------------------- state -------------------------------- *)

VARIABLES
    paths,               \* the GlPath objects that exist, by object identity
    lastReq,             \* per GlPath object: Option of its latest stroke request
    strokeLog,           \* the stroke requests made by the latest operation
    images,              \* the GlImageData objects, by Arc address
    textures,            \* the GL textures created, by texture name
    uploads,             \* per GlImageData: uploads of its pixels so far
    blur_cache,          \* GlowRenderer::blur_cache
    fbo_size,            \* GlowRenderer::fbo_size
    bottom_layer_dirty,  \* GlowRenderer::bottom_layer_dirty
    scene,               \* scene_manager.scene() as of the latest update_scene
    target,              \* the content of the framebuffers' color storage
    frame,               \* the clears, draws and resolves of the latest render call
    sampled,             \* Option: the cached texture as blit_fbo last sampled it
    sizes,               \* the sizes passed to the latest two render calls
    aborted,             \* the process panicked
    objects,             \* per GL object of the renderer: its creations and deletions
    deleted_textures,    \* the GL textures deleted, by texture name
    blurLog,             \* the latest two calls of get_or_create_blurred_texture
    result,              \* Option: what GlowRenderer::new returned
    destroyed,           \* destroy has been called
    threads,             \* per thread: the cache operation it is in and where
    locks,               \* the RwLocks: GlPath::stroke_cache, GlImageData::texture
    writes,              \* the buffer allocations (set_stroke_cache calls, stroke requests) so far
    entry,               \* the draw framebuffer bound when render was last entered
    log,                 \* the resize, scene update and flag read of that call
    returned,            \* what that call returned (Option<[f32; 2]>)
    context_lost,        \* gl.create_texture failed in that call
    args,                \* the arguments of the latest call of a free function
    ret,                 \* Option: what that call returned
    call                 \* the latest operation and its arguments

vars == <<paths, lastReq, strokeLog, images, textures, uploads, blur_cache, fbo_size,
          bottom_layer_dirty, scene, target, frame, sampled, sizes, aborted, objects,
          deleted_textures, blurLog, result, destroyed, threads, locks, writes, entry,
          log, returned, context_lost, args, ret, call>>

pathVars == <<paths, lastReq, strokeLog>>
rendererVars == <<images, textures, uploads, blur_cache, fbo_size, bottom_layer_dirty,
                  scene, target, frame, sampled, sizes, aborted, objects,
                  deleted_textures, blurLog, result, destroyed>>
lockVars == <<threads, locks, writes>>
callVars == <<args, ret>>
frameVars == <<entry, log, returned, context_lost>>

Call(op, a, b) == [op |-> op, a |-> a, b |-> b]

(* ---------------------- the scenes of the model ------------------------ *)

ImageA == GlImage(1, 1)
\* ImageA.share(): another handle on the same GlImageData.
ImageA2 == GlImage(2, 1)
ImageB == GlImage(3, 2)

Red == Color(1, ALPHA_ONE)
Blue == Color(2, 2)
Clear == Color(3, 0)

Scene(background, bottom_layer, top_layer, bottom_layer_changed) ==
    [background |-> background, bottom_layer |-> bottom_layer, top_layer |-> top_layer,
     bottom_layer_changed |-> bottom_layer_changed]

NoScene == Scene(None, <<>>, <<>>, FALSE)

\* GlPath objects 2 and 3 are two references to one shape (3 = share(2)).
BottomA == <<FillPath(2, SolidColor(Red)), StrokePath(2, 0, Blue)>>
BottomB ==
    <<StrokePath(3, 1, Red), FillPath(0, SolidColor(Red)), Image(ImageA2),
      Label(<<Glyph(2, Some(Red)), Glyph(0, None)>>, SolidColor(Blue), Some(Color(0, 2)))>>

TopA ==
    <<Label(<<Glyph(2, None), Glyph(0, None), Glyph(3, Some(Blue))>>,
            HorizontalGradient(Red, Clear), Some(Color(0, 2))),
      Label(<<Glyph(1, None), Glyph(0, None), Glyph(2, Some(Red))>>, SolidColor(Red), None),
      Label(<<Glyph(3, Some(Red)), Glyph(2, None)>>, VerticalGradient(Blue, Red),
            Some(Color(4, ALPHA_ONE))),
      Label(<<Glyph(2, None)>>, SolidColor(Blue), Some(Color(4, 2)))>>
TopB == <<StrokePath(2, WidthHuge, Red), StrokePath(2, MaxWidth, Blue), Image(ImageB)>>

\* The scenes update_scene can yield: each layout with the flag set or not.
Scenes ==
    {Scene(l[1], l[2], l[3], changed) :
        l \in {<<None, <<>>, <<>>>>,
               <<Some(BackgroundShader(VerticalGradient(Red, Clear))), BottomA, TopA>>,
               <<Some(BackgroundShader(VerticalGradient(Red, Clear))), BottomA, <<>>>>,
               <<Some(BackgroundImage(ImageA, 0, 3, ALPHA_ONE)), BottomB, TopB>>,
               <<Some(BackgroundImage(ImageA, 1, ALPHA_ONE, 2)), BottomA, TopB>>},
        changed \in BOOLEAN}

\* The output sizes: the initial fbo_size, surfaces 0..MaxDim pixels wide
\* and one high, a width and a height above i32::MAX, and a width that is
\* no f32.
Sizes ==
    {<<0, 0>>, <<U32_MAX, 1>>, <<1, U32_MAX>>, <<MANTISSA + 1, 1>>}
        \cup {<<w, 1>> : w \in 0..MaxDim}

\* The render calls: every size with the default framebuffer bound, no
\* preferred resolution and a GL context that creates textures, and one
\* call each with a framebuffer of the caller's bound, with a preferred
\* resolution returned, and with a context that creates no texture.
Calls ==
    {<<size, "default", None, FALSE>> : size \in Sizes}
        \cup {<<<<1, 1>>, "user", None, FALSE>>,
              <<<<2, 1>>, "default", Some(<<2, 1>>), FALSE>>,
              <<<<1, 1>>, "default", None, TRUE>>}

(* ------------------------------ actions -------------------------------- *)

\* Before GlowRenderer::new; the scene's paths and images exist.
Init ==
    /\ paths = <<new(1), new(2), share(new(2))>>
    /\ lastReq = <<None, None, None>>
    /\ strokeLog = <<>>
    /\ images = <<[pixels |-> 1, width |-> 2, height |-> 1, texture |-> None],
                  [pixels |-> 2, width |-> 1, height |-> 1, texture |-> None]>>
    /\ textures = <<>>
    /\ uploads = <<0, 0>>
    /\ blur_cache = None
    /\ fbo_size = <<0, 0>>
    /\ bottom_layer_dirty = TRUE
    /\ scene = NoScene
    /\ target = [fb \in Framebuffers |-> Picture(<<0, 0>>, <<>>)]
    /\ frame = <<>>
    /\ sampled = None
    /\ sizes = <<>>
    /\ aborted = FALSE
    /\ objects = NoObjects
    /\ deleted_textures = {}
    /\ blurLog = <<>>
    /\ result = None
    /\ destroyed = FALSE
    /\ threads = <<>>
    /\ locks = [l \in {"stroke_cache", "texture"} |-> Unlocked]
    /\ writes = 0
    /\ entry = "default"
    /\ log = <<>>
    /\ returned = None
    /\ context_lost = FALSE
    /\ args = <<>>
    /\ ret = None
    /\ call = Call("main", 0, 0)

\* GlowRenderer::new(gl), the driver failing the GL calls in `failing`.  On
\* Ok the renderer starts with fbo_size [0, 0], the bottom layer dirty and
\* no blur cache.
New(failing) ==
    /\ result = None
    /\ \E made \in {GlowRendererNew(failing)} :
           /\ result' = Some(made.result)
           /\ objects' = made.objects
           /\ textures' = IF made.objects["fbo_texture"].created > 0
                          THEN <<FboTexture>>
                          ELSE <<>>
    /\ fbo_size' = <<0, 0>>
    /\ bottom_layer_dirty' = TRUE
    /\ blur_cache' = None
    /\ strokeLog' = <<>>
    /\ frame' = <<>>
    /\ call' = Call("new", failing, 0)
    /\ UNCHANGED <<paths, lastReq, images, uploads, scene, target, sampled, sizes, aborted,
                   deleted_textures, blurLog, destroyed>>
    /\ UNCHANGED lockVars
    /\ UNCHANGED callVars
    /\ UNCHANGED frameVars

\* A renderer exists: new returned Ok and destroy has not been called.
Live == result /= None /\ result[1].ok /\ ~destroyed

\* The scene manager sets the flag on every frame whose bottom layer differs
\* from the frame before (and may set it on any frame).
SceneUpdateOk(next_scene) ==
    \/ sizes = <<>>
    \/ next_scene.bottom_layer_changed
    \/ /\ next_scene.background = scene.background
       /\ next_scene.bottom_layer = scene.bottom_layer

\* The blurred background textures among the textures created.
Blurred(created) == {t \in DOMAIN created : created[t].kind = "blur"}

\* The renderer and what it draws on, as render sees them at entry.
Renderer ==
    [paths |-> paths, lastReq |-> lastReq, strokeLog |-> <<>>, images |-> images,
     textures |-> textures, uploads |-> uploads, blur_cache |-> blur_cache,
     fbo_size |-> fbo_size, bottom_layer_dirty |-> bottom_layer_dirty,
     target |-> target, frame |-> <<>>, sampled |-> sampled,
     objects |-> objects, deleted_textures |-> deleted_textures, blurLog |-> blurLog,
     log |-> <<>>, returned |-> None, draw_fb |-> "default", read_fb |-> "default"]

Tail2(seq) == IF Len(seq) > 2 THEN SubSeq(seq, Len(seq) - 1, Len(seq)) ELSE seq

\* The GL calls a frame issued before the first draw with a texture that
\* did not exist when render was entered.
BeforeFirstCreation(events, existing) ==
    LET first == CHOOSE i \in DOMAIN events :
                     /\ events[i].tex > existing
                     /\ \A j \in 1..(i - 1) : events[j].tex <= existing
    IN  SubSeq(events, 1, first - 1)

\* GlowRenderer::render(state, image_cache, size), called while the
\* framebuffer `bound` is the current one, the scene manager's update
\* yielding next_scene and the preferred resolution new_resolution, and
\* gl.create_texture failing if `lost`.
Render(size, next_scene, bound, new_resolution, lost) ==
    /\ Live
    /\ ~aborted
    /\ UNCHANGED <<result, destroyed>>
    /\ UNCHANGED lockVars
    /\ UNCHANGED callVars
    /\ SceneUpdateOk(next_scene)
    /\ call' = Call("render", size, next_scene.bottom_layer_changed)
    /\ entry' = bound
    /\ IF /\ SizeChanged(fbo_size, size)
          /\ (gl_size(size[1]) = None \/ gl_size(size[2]) = None)
       THEN \* resize_fbo panics in gl_size, before its first GL call
            /\ aborted' = TRUE
            /\ strokeLog' = <<>>
            /\ frame' = <<>>
            /\ log' = <<>>
            /\ returned' = None
            /\ context_lost' = FALSE
            /\ UNCHANGED <<paths, lastReq, images, textures, uploads, blur_cache, fbo_size,
                           bottom_layer_dirty, scene, target, sampled, sizes, objects,
                           deleted_textures, blurLog>>
       ELSE LET entered == [Renderer EXCEPT !.draw_fb = bound, !.read_fb = bound]
                st == update_scene(EnsureFboSize(entered, size), Resolution(size),
                                   new_resolution)
            IN  IF gl_size(size[1]) = None \/ gl_size(size[2]) = None
                THEN \* line 363 panics, after the resize and the scene update
                     /\ aborted' = TRUE
                     /\ log' = st.log
                     /\ returned' = None
                     /\ context_lost' = FALSE
                     /\ scene' = next_scene
                     /\ fbo_size' = st.fbo_size
                     /\ bottom_layer_dirty' = st.bottom_layer_dirty
                     /\ target' = st.target
                     /\ strokeLog' = <<>>
                     /\ frame' = <<>>
                     /\ objects' = st.objects
                     /\ UNCHANGED <<paths, lastReq, images, textures, uploads, blur_cache,
                                    sampled, sizes, deleted_textures, blurLog>>
                ELSE \E done \in {RenderScene(st, next_scene, size)} :
                     IF lost /\ Len(done.textures) > Len(textures)
                     THEN \* ensure_texture (690) or get_or_create_blurred_texture
                          \* (854) panics at the frame's first create_texture
                         /\ aborted' = TRUE
                         /\ context_lost' = TRUE
                         /\ log' = done.log
                         /\ returned' = None
                         /\ scene' = next_scene
                         /\ fbo_size' = st.fbo_size
                         /\ bottom_layer_dirty' = st.bottom_layer_dirty
                         /\ target' = st.target
                         /\ strokeLog' = <<>>
                         /\ frame' = BeforeFirstCreation(done.frame, Len(textures))
                         /\ objects' = st.objects
                         /\ UNCHANGED <<paths, lastReq, images, textures, uploads, blur_cache,
                                        sampled, sizes, deleted_textures, blurLog>>
                     ELSE
                         /\ Cardinality(Blurred(done.textures)) <= MaxBlurred
                         /\ aborted' = FALSE
                         /\ context_lost' = FALSE
                         /\ scene' = next_scene
                         /\ paths' = done.paths
                         /\ lastReq' = done.lastReq
                         /\ strokeLog' = done.strokeLog
                         /\ images' = done.images
                         /\ textures' = done.textures
                         /\ uploads' = done.uploads
                         /\ blur_cache' = done.blur_cache
                         /\ fbo_size' = done.fbo_size
                         /\ bottom_layer_dirty' = done.bottom_layer_dirty
                         /\ target' = done.target
                         /\ frame' = done.frame
                         /\ sampled' = done.sampled
                         /\ sizes' = Tail2(Append(sizes, size))
                         /\ objects' = done.objects
                         /\ deleted_textures' = done.deleted_textures
                         /\ blurLog' = Tail2(done.blurLog)
                         /\ log' = done.log
                         /\ returned' = done.returned

\* GlowRenderer::destroy(&self), called once, while the GL context is
\* current.
Destroy ==
    /\ Live
    /\ ~aborted
    /\ \E done \in {destroy(Renderer)} :
           /\ objects' = done.objects
           /\ deleted_textures' = done.deleted_textures
    /\ destroyed' = TRUE
    /\ strokeLog' = <<>>
    /\ frame' = <<>>
    /\ call' = Call("destroy", 0, 0)
    /\ UNCHANGED <<paths, lastReq, images, textures, uploads, blur_cache, fbo_size,
                   bottom_layer_dirty, scene, target, sampled, sizes, aborted, blurLog,
                   result>>
    /\ UNCHANGED lockVars
    /\ UNCHANGED callVars
    /\ UNCHANGED frameVars

\* The sets of GL calls the driver may fail during one new.
Failings == {f \in SUBSET Steps : Cardinality(f) <= MaxFailures}

Next ==
    \/ \E failing \in Failings : New(failing)
    \/ \E c \in Calls, next_scene \in Scenes : Render(c[1], next_scene, c[2], c[3], c[4])
    \/ Destroy

Spec == Init /\ [][Next]_vars

(* ------------------------ the renderer: claims ------------------------- *)

\* The latest operation is a render call that returned.
Completed == call.op = "render" /\ ~aborted

\* The size passed to the latest render call that returned.
Size == sizes[Len(sizes)]

\* The reference renderer: what each part of a scene paints when it is
\* rendered from scratch, with no stroke cache and no cached bottom layer.
RefPath(kind, path, n, shader) ==
    Pic(kind, paths[path].lyon_path, n, 10 * shader.a + shader.type, shader.b)

RefGlyphs(glyphs, pass, shader) ==
    LET present == SelectSeq(glyphs, LAMBDA g : g.path /= 0)
    IN  [i \in DOMAIN present |->
            RefPath(pass, present[i].path, -1,
                    IF pass = "glyph" /\ present[i].color /= None
                    THEN SolidColor(present[i].color[1])
                    ELSE shader)]

RefEntity(entity) ==
    CASE entity.kind = "FillPath" ->
            IF entity.path = 0
            THEN <<>>
            ELSE <<RefPath("entity", entity.path, -1, entity.shader)>>
      [] entity.kind = "StrokePath" ->
            IF entity.path = 0 \/ ~StrokeTessellator(paths[entity.path].lyon_path, entity.width)
            THEN <<>>
            ELSE <<RefPath("entity", entity.path, entity.width, SolidColor(entity.color))>>
      [] entity.kind = "Image" ->
            <<Pic("image", entity.image.data, 0, ALPHA_ONE, ALPHA_ONE)>>
      [] entity.kind = "Label" ->
            (IF entity.shadow = None
             THEN <<>>
             ELSE RefGlyphs(entity.glyphs, "shadow",
                            SolidColor(Color(RgbOf(entity.shadow[1]),
                                             (AlphaOf(entity.shadow[1])
                                                 * LabelAlpha(entity.shader)) \div ALPHA_ONE))))
            \o RefGlyphs(entity.glyphs, "glyph", entity.shader)

RECURSIVE RefLayer(_, _)
RefLayer(entities, i) ==
    IF i > Len(entities) THEN <<>> ELSE RefEntity(entities[i]) \o RefLayer(entities, i + 1)

RefBackground(background) ==
    IF background = None
    THEN <<>>
    ELSE IF background[1].kind = "Shader"
         THEN <<RefPath("full", Rectangle, -1, background[1].shader)>>
         ELSE <<Pic("image", background[1].image.data, background[1].blur,
                    background[1].brightness, background[1].opacity)>>

\* The draws of the bottom layer, and the picture they leave at a size.
RefBottomDraws(s) == RefBackground(s.background) \o RefLayer(s.bottom_layer, 1)
ReferenceBottom(s, size) == Picture(size, RefBottomDraws(s))

\* The GL calls of the latest frame, by kind.
DrawsIn(layers) == {i \in DOMAIN frame : frame[i].op = "draw" /\ frame[i].layer \in layers}
ResolvesInto(fb) == {i \in DOMAIN frame : frame[i].op = "resolve" /\ frame[i].fb = fb}
Clears == {i \in DOMAIN frame : frame[i].op = "clear"}
BottomDraws == DrawsIn({"background", "bottom"})

\* The pictures of the frame's draws of some layers, in the order drawn.
PicsIn(layers) ==
    LET drawn == SelectSeq(frame, LAMBDA e : e.op = "draw" /\ e.layer \in layers)
    IN  [i \in DOMAIN drawn |-> drawn[i].pic]

\* C1: cache transparency.  In every render call that returns, what the
\* composition step samples from the resolved-cache target is the picture a
\* reference renderer paints by rendering the background and every
\* bottom-layer entity of that frame's scene afresh at that frame's size.
C1_CacheTransparency ==
    Completed => sampled = Some(ReferenceBottom(scene, Size))

\* A frame that reuses a cached bottom layer holding several draws.
C1_Witness ==
    /\ Completed
    /\ ResolvesInto("fbo") = {}
    /\ sampled /= None
    /\ Len(sampled[1].pics) >= 3

\* C2: bottom-layer reuse.  On a frame other than the first whose scene has
\* the flag unset and whose size is the size of the preceding render call,
\* render issues no draw for the background or a bottom-layer entity and no
\* resolve into the resolved-cache target.
C2_BottomLayerReuse ==
    (Completed /\ Len(sizes) = 2 /\ sizes[1] = sizes[2] /\ ~scene.bottom_layer_changed)
        => BottomDraws = {} /\ ResolvesInto("fbo") = {}

\* Such a frame, of a scene that has a background and bottom-layer entities
\* and draws its top layer.
C2_Witness ==
    /\ Completed /\ Len(sizes) = 2 /\ sizes[1] = sizes[2] /\ ~scene.bottom_layer_changed
    /\ scene.background /= None
    /\ scene.bottom_layer /= <<>>
    /\ DrawsIn({"top"}) /= {}

\* C3: resize forces a full redraw.  A render call that returns and whose
\* size differs from the size of the previous render call draws the
\* background and every bottom-layer entity into the cleared working target
\* and resolves it into the resolved-cache target, whatever the flag.
C3_ResizeRedraws ==
    (Completed /\ Len(sizes) = 2 /\ sizes[1] /= sizes[2])
        => /\ PicsIn({"background", "bottom"}) = RefBottomDraws(scene)
           /\ \A i \in BottomDraws : frame[i].fb = "msaa"
           /\ \E r \in ResolvesInto("fbo") :
                 /\ frame[r].src = "msaa"
                 /\ \A i \in BottomDraws : i < r
                 /\ \E c \in Clears : frame[c].fb = "msaa" /\ \A i \in BottomDraws : c < i
           /\ fbo_size = Size
           /\ target["fbo"] = ReferenceBottom(scene, Size)

\* A resized frame with the flag unset that redraws a non-empty bottom layer.
C3_Witness ==
    /\ Completed /\ Len(sizes) = 2 /\ sizes[1] /= sizes[2]
    /\ ~scene.bottom_layer_changed
    /\ Area(Size) > 0
    /\ Cardinality(BottomDraws) >= 3

\* C4: within a render call every draw of the background and of a
\* bottom-layer entity comes before every draw of a top-layer entity, every
\* top-layer draw comes before the resolve to the output surface, and the
\* entities of a layer are drawn in the scene's sequence order.
C4_DrawOrder ==
    Completed
        => /\ \A i \in BottomDraws, j \in DrawsIn({"top"}) : i < j
           /\ \A j \in DrawsIn({"top"}), r \in ResolvesInto("default") : j < r
           /\ ResolvesInto("default") /= {}
           /\ \A layer \in {"bottom", "top"} :
                 \A i, j \in DrawsIn({layer}) : i < j => frame[i].idx <= frame[j].idx
           /\ PicsIn({"bottom"}) \in {<<>>, RefLayer(scene.bottom_layer, 1)}
           /\ PicsIn({"top"}) = RefLayer(scene.top_layer, 1)

\* A frame that draws several entities of both layers.
C4_Witness ==
    /\ Completed
    /\ \E i, j \in DrawsIn({"bottom"}) : frame[i].idx < frame[j].idx
    /\ \E i, j \in DrawsIn({"top"}) : frame[i].idx < frame[j].idx

\* C5: render, resolve, composite are sequential.  In a frame that writes
\* the resolved-cache target every bottom-layer draw comes before the
\* resolve into it, the resolve comes before the composition step samples
\* it, and no call writes the target after it has been sampled.
C5_Sequential ==
    (Completed /\ ResolvesInto("fbo") /= {})
        => /\ DrawsIn({"blit"}) /= {}
           /\ \A r \in ResolvesInto("fbo") :
                 /\ \A i \in BottomDraws : i < r
                 /\ \A b \in DrawsIn({"blit"}) : r < b
           /\ \A b \in DrawsIn({"blit"}), k \in DOMAIN frame :
                 frame[k].fb = "fbo" => k < b

\* A frame that renders bottom-layer entities, resolves them and samples.
C5_Witness ==
    /\ Completed
    /\ ResolvesInto("fbo") /= {}
    /\ DrawsIn({"bottom"}) /= {}
    /\ DrawsIn({"blit"}) /= {}
    /\ sampled /= None /\ sampled[1].pics /= <<>>

\* C6: every render call that returns ends with the composition step: the
\* frame's last clear clears the working target, the next call draws the
\* resolved-cache texture as one quad, then come the draws of every
\* top-layer entity and nothing else, and the last call is the frame's only
\* resolve to the output surface.
C6_Composition ==
    Completed
        => /\ Clears /= {}
           /\ LET c == CHOOSE i \in Clears : \A k \in Clears : k <= i
                  n == Len(frame)
              IN  /\ frame[c].fb = "msaa"
                  /\ c + 1 < n
                  /\ frame[c + 1].op = "draw" /\ frame[c + 1].layer = "blit"
                  /\ frame[c + 1].fb = "msaa" /\ frame[c + 1].tex = 1
                  /\ frame[c + 1].mesh = paths[Rectangle].vertices
                  /\ \A k \in (c + 2)..(n - 1) :
                        frame[k].op = "draw" /\ frame[k].layer = "top" /\ frame[k].fb = "msaa"
                  /\ frame[n].op = "resolve" /\ frame[n].fb = "default"
                  /\ frame[n].src = "msaa"
           /\ PicsIn({"top"}) = RefLayer(scene.top_layer, 1)
           /\ Cardinality(DrawsIn({"blit"})) = 1
           /\ Cardinality(ResolvesInto("default")) = 1
           /\ target["default"] =
                  Picture(Size, RefBottomDraws(scene) \o RefLayer(scene.top_layer, 1))

\* A frame that reuses the bottom layer and one that re-renders it both
\* composite; this is the former, with top-layer draws.
C6_Witness ==
    /\ Completed
    /\ BottomDraws = {}
    /\ Cardinality(DrawsIn({"top"})) >= 2
    /\ Area(Size) > 0

\* The textures that hold the pixels of GlImageData d.
ImageTextures(d) ==
    {t \in DOMAIN textures : textures[t].kind = "image" /\ textures[t].data = d}

\* C10, in each state: the pixels of an image are uploaded at most once, the
\* image holds a handle exactly when they have been, the handle names the
\* one texture made from them, and every draw of the unblurred image, through
\* whichever handle on it, binds that texture.
C10_Once ==
    /\ \A d \in DOMAIN images :
          /\ uploads[d] <= 1
          /\ Cardinality(ImageTextures(d)) = uploads[d]
          /\ (images[d].texture /= None) <=> (uploads[d] = 1)
          /\ images[d].texture /= None => ImageTextures(d) = {images[d].texture[1]}
    /\ \A i \in DOMAIN frame :
          (frame[i].op = "draw" /\ frame[i].pic.k = "image" /\ frame[i].pic.b = 0)
              => frame[i].tex \in ImageTextures(frame[i].pic.a)

\* C10, in each step: a handle, once made, stays, and so does its texture.
C10_Stable ==
    \A d \in DOMAIN images :
        images[d].texture /= None
            => /\ images'[d].texture = images[d].texture
               /\ uploads'[d] = uploads[d]
               /\ textures'[images[d].texture[1]] = textures[images[d].texture[1]]

\* C10: ensure_texture memoization.  Over every sequence of render calls the
\* upload of an image's pixels runs exactly once, on the first
\* ensure_texture call for the image, and every later call, also one through
\* a shared clone, returns the first call's texture without an upload.
C10_EnsureTextureMemo == []C10_Once /\ [][C10_Stable]_vars

\* A frame after the upload that draws the image through two handles on the
\* same GlImageData, as the background and as a bottom-layer entity.
C10_Witness ==
    /\ Completed
    /\ uploads[ImageA.data] = 1
    /\ ResolvesInto("fbo") /= {}
    /\ \E i \in DrawsIn({"background"}), j \in DrawsIn({"bottom"}) :
          /\ frame[i].tex = frame[j].tex
          /\ frame[i].tex = images[ImageA.data].texture[1]
    /\ Len(textures) >= 3

\* C11, in each state: the texture an image's handle names has not been
\* deleted.
C11_NotDeleted ==
    \A d \in DOMAIN images :
        images[d].texture /= None
            => /\ images[d].texture[1] \in DOMAIN textures
               /\ images[d].texture[1] \notin deleted_textures

\* C11, in each step: a populated handle keeps its value and its texture
\* is not deleted.
C11_Kept ==
    \A d \in DOMAIN images :
        images[d].texture /= None
            => /\ images'[d].texture = images[d].texture
               /\ images[d].texture[1] \notin deleted_textures'

\* C11: texture handle stability.  Once an image's texture handle holds
\* texture t it holds t from then on: no render, resize or destroy clears or
\* replaces it, and none deletes GL texture t while the handle refers to it.
C11_HandleStability == []C11_NotDeleted /\ [][C11_Kept]_vars

\* The renderer destroyed after frames that uploaded both images and
\* resized the targets: both handles still name their textures.
C11_Witness ==
    /\ destroyed
    /\ 1 \in deleted_textures
    /\ images[ImageA.data].texture /= None
    /\ images[ImageB.data].texture /= None
    /\ Len(sizes) = 2
    /\ sizes[1] /= sizes[2]

\* C12: blur cache reuse.  When a blurred background texture is requested
\* for image I and blur b > 0 and the blurred request before it was for the
\* same I and the same b, the second request returns the texture the first
\* created and neither blurs on the CPU nor uploads.
C12_AsStated ==
    (/\ Len(blurLog) = 2
     /\ blurLog[2].source = blurLog[1].source
     /\ blurLog[2].blur_value = blurLog[1].blur_value
     /\ blurLog[2].blur_value > 0)
        => /\ blurLog[2].texture = blurLog[1].texture
           /\ ~blurLog[2].uploaded

\* C13: in every state at most one blurred background texture created by
\* the renderer exists undeleted.
C13_AsStated == Cardinality(Blurred(textures) \ deleted_textures) <= 1

\* The layers the latest frame rendered, in order: the bottom layer when it
\* was rendered again, and the top layer.
LayersRendered ==
    (IF ResolvesInto("fbo") /= {} THEN <<"bottom">> ELSE <<>>) \o <<"top">>

EntitiesOf(layer) == IF layer = "bottom" THEN scene.bottom_layer ELSE scene.top_layer

\* The draw calls of the latest frame for the idx-th entity of a layer.
DrawsOf(layer, idx) == {i \in DrawsIn({layer}) : frame[i].idx = idx}

\* The entities of a layer whose stroke was requested: the StrokePath
\* entities with a path, as [layer, idx], in order.
StrokesOf(layer) ==
    LET entities == EntitiesOf(layer)
        asked == SelectSeq([i \in DOMAIN entities |-> i],
                           LAMBDA i : /\ entities[i].kind = "StrokePath"
                                      /\ entities[i].path /= 0)
    IN  [n \in DOMAIN asked |-> [layer |-> layer, idx |-> asked[n]]]

RECURSIVE StrokesFrom(_, _)
StrokesFrom(layers, i) ==
    IF i > Len(layers) THEN <<>> ELSE StrokesOf(layers[i]) \o StrokesFrom(layers, i + 1)

Oversize(size) == size[1] < 0 \/ size[2] < 0

\* The pictures of the latest frame's draws for one entity, in order.
PicsOf(layer, idx) ==
    LET drawn == SelectSeq(frame, LAMBDA e : /\ e.op = "draw"
                                             /\ e.layer = layer
                                             /\ e.idx = idx)
    IN  [i \in DOMAIN drawn |-> drawn[i].pic]

\* C15: a resource that is missing costs its own draws and nothing else.  A
\* render call panics only for a size above i32::MAX or when the GL context
\* creates no texture, never for a missing resource.  In a render call
\* that returns, an entity without a shape, a stroke without geometry and a
\* glyph without a path have no draw call; every other entity and glyph of
\* the layers rendered is drawn, in scene order; and the frame ends with the
\* resolve to the output target.
C15_FailuresSkipped ==
    /\ (call.op = "render" /\ aborted) => (Oversize(call.a) \/ context_lost)
    /\ Completed =>
          /\ \A n \in DOMAIN LayersRendered :
                LET layer == LayersRendered[n]
                IN  /\ \A idx \in DOMAIN EntitiesOf(layer) :
                          PicsOf(layer, idx) = RefEntity(EntitiesOf(layer)[idx])
                    /\ \A i, j \in DrawsIn({layer}) :
                          i < j => frame[i].idx <= frame[j].idx
                    /\ \A i \in DrawsIn({layer}) : frame[i].idx \in DOMAIN EntitiesOf(layer)
          /\ frame /= <<>>
          /\ frame[Len(frame)].op = "resolve"
          /\ frame[Len(frame)].fb = "default"
          /\ frame[Len(frame)].src = "msaa"

\* A frame that renders both layers of a scene with an entity without a
\* shape, a glyph without a path and a stroke without geometry, each next
\* to entities that are drawn.
C15_Witness ==
    /\ Completed
    /\ LayersRendered = <<"bottom", "top">>
    /\ scene.bottom_layer = BottomB
    /\ scene.top_layer = TopB
    /\ DrawsOf("bottom", 2) = {}
    /\ Cardinality(DrawsOf("bottom", 4)) = 2
    /\ DrawsOf("top", 1) = {}
    /\ DrawsOf("bottom", 3) /= {}
    /\ DrawsOf("top", 3) /= {}
    /\ ResolvesInto("default") /= {}

\* C16: initialization is all-or-nothing.  new returns an error string and
\* no renderer whenever a shader stage of either program fails to compile,
\* either program fails to link or a GL object cannot be created; it returns
\* a renderer only when every one of these steps succeeded, and then every
\* long-lived object exists.
C16_AllOrNothing ==
    call.op = "new" =>
        /\ result /= None
        /\ result[1].ok <=> (call.a \cap Steps = {})
        /\ ~result[1].ok => (result[1].err /= "" /\ ~Live)
        /\ result[1].ok =>
              /\ Live
              /\ \A o \in LongLived : objects[o] = [created |-> 1, deleted |-> 0]
              /\ \A s \in Shaders : objects[s] = [created |-> 1, deleted |-> 1]
              /\ textures = <<FboTexture>>
              /\ fbo_size = <<0, 0>>
              /\ bottom_layer_dirty
              /\ blur_cache = None

\* new after the second program failed to link: an error, no renderer, the
\* first program already built.
C16_Witness ==
    /\ call.op = "new"
    /\ call.a = {<<"link", "image_program">>}
    /\ result = Some(Err("Program link error"))
    /\ ~Live
    /\ objects["path_program"].created = 1
    /\ objects["vao"].created = 0

\* C17, in each state: a long-lived object of a renderer that new returned
\* has been created once, and deleted once after destroy and not before.
C17_Counts ==
    \A o \in LongLived :
        /\ objects[o].created <= 1
        /\ objects[o].deleted <= objects[o].created
        /\ (result /= None /\ result[1].ok)
              => /\ objects[o].created = 1
                 /\ objects[o].deleted = (IF destroyed THEN 1 ELSE 0)

\* C17, in each step: only new creates a long-lived object, only destroy
\* deletes one of a renderer; render, resizes included, does neither.
C17_Step ==
    \A o \in LongLived :
        /\ objects'[o].created /= objects[o].created => call'.op = "new"
        /\ (objects'[o].deleted /= objects[o].deleted /\ result' = Some(Ok))
              => call'.op = "destroy"

\* C17: the long-lived GPU objects (the two programs, the vertex array, the
\* two buffers, the two framebuffers, the resolve texture and the MSAA
\* renderbuffer) are each created exactly once, in new and never by render
\* or a resize, and deleted exactly once, in destroy.
C17_CreatedOnceDeletedOnce == []C17_Counts /\ [][C17_Step]_vars

\* destroy after two frames, the second of which resized the targets.
C17_Witness ==
    /\ call.op = "destroy"
    /\ Len(sizes) = 2
    /\ sizes[1] /= sizes[2]
    /\ Area(fbo_size) > 0
    /\ \A o \in LongLived : objects[o] = [created |-> 1, deleted |-> 1]

\* C18: teardown releases all GPU resources.  After destroy no texture the
\* renderer created is left undeleted: not the resolve texture, not an
\* image's lazily uploaded texture, not a blurred background texture.
C18_AsStated == destroyed => DOMAIN textures \subseteq deleted_textures

\* C19, in each step: a render call with an oversize dimension panics with
\* no GL call made, the scene not updated and the renderer as it was.
C19_Step ==
    (call'.op = "render" /\ Oversize(call'.a))
        => /\ aborted'
           /\ frame' = <<>>
           /\ UNCHANGED <<scene, fbo_size, bottom_layer_dirty, target, textures, images,
                          paths, objects, blur_cache, sampled>>

\* C19: oversize dimensions panic.  A render call whose width or height is
\* above i32::MAX panics before any GL call and before the scene is updated,
\* and leaves fbo_size and the dirty flag as they were.
C19_OversizePanics ==
    /\ []((call.op = "render" /\ Oversize(call.a)) => (aborted /\ frame = <<>>))
    /\ [][C19_Step]_vars

\* A render call with an oversize height after frames that sized the
\* targets and cleaned the bottom layer.
C19_Witness ==
    /\ call.op = "render"
    /\ call.a = <<1, U32_MAX>>
    /\ aborted
    /\ Area(fbo_size) > 0
    /\ ~bottom_layer_dirty
    /\ scene.bottom_layer /= <<>>
    /\ frame = <<>>

\* C22: render draws the layout into the framebuffer that is bound when
\* render is called.  The last GL call of every render call that returns is
\* a resolve whose destination is the draw framebuffer that was current at
\* entry.
C22_AsStated ==
    Completed =>
        /\ frame[Len(frame)].op = "resolve"
        /\ frame[Len(frame)].fb = entry

\* The entries of the latest render call's log for one operation.
Logged(op) == {i \in DOMAIN log : log[i].op = op}

\* C23: every render call that returns invokes the scene update exactly
\* once, with the call's output resolution, after any resize of the targets,
\* before the bottom-layer-changed flag is read and before any clear, draw or
\* resolve; and it returns exactly the preferred resolution that update
\* returned.
C23_UpdateOncePerCall ==
    Completed =>
        /\ Cardinality(Logged("update_scene")) = 1
        /\ Cardinality(Logged("bottom_layer_changed")) = 1
        /\ \A u \in Logged("update_scene") :
               /\ log[u].arg.resolution = Resolution(Size)
               /\ log[u].at = 0
               /\ returned = log[u].arg.new_resolution
               /\ \A r \in Logged("resize_fbo") : r < u
               /\ \A b \in Logged("bottom_layer_changed") :
                      /\ u < b
                      /\ log[b].at = 0
                      /\ log[b].arg = call.b

\* A call that resized the targets, drew, and returned a preferred
\* resolution.
C23_Witness ==
    /\ Completed
    /\ Logged("resize_fbo") /= {}
    /\ returned /= None
    /\ DrawsIn({"bottom", "top"}) /= {}

\* The draw calls of the latest frame for one entity, in order.
EventsOf(layer, idx) ==
    SelectSeq(frame, LAMBDA e : e.op = "draw" /\ e.layer = layer /\ e.idx = idx)

\* The glyphs of a label that have a path, in label order.
Present(glyphs) == SelectSeq(glyphs, LAMBDA g : g.path /= 0)

\* C24: a label's shadows lie under all of its glyphs.  For every label a
\* frame renders, with k of its glyphs present: the frame has 2k draw calls
\* for it if it has a shadow color and k otherwise; every shadow draw comes
\* before every glyph draw; within each pass the draws are the present
\* glyphs in label order; a glyph without a path has no draw in either pass.
C24_ShadowsUnderGlyphs ==
    Completed =>
        \A n \in DOMAIN LayersRendered :
            \A idx \in DOMAIN EntitiesOf(LayersRendered[n]) :
                LET label == EntitiesOf(LayersRendered[n])[idx]
                    events == EventsOf(LayersRendered[n], idx)
                    present == Present(label.glyphs)
                    k == Len(present)
                    shadows == IF label.shadow /= None THEN k ELSE 0
                IN  label.kind = "Label" =>
                        /\ Len(events) = shadows + k
                        /\ \A i \in 1..shadows :
                               /\ events[i].pic.k = "shadow"
                               /\ events[i].pic.a = paths[present[i].path].lyon_path
                               /\ events[i].mesh = paths[present[i].path].vertices
                        /\ \A i \in 1..k :
                               /\ events[shadows + i].pic.k = "glyph"
                               /\ events[shadows + i].pic.a = paths[present[i].path].lyon_path
                               /\ events[shadows + i].mesh = paths[present[i].path].vertices

\* A frame with a shadowed label and an unshadowed one, each with two
\* glyphs present and one absent: four draws and two.
C24_Witness ==
    /\ Completed
    /\ scene.top_layer = TopA
    /\ Len(EventsOf("top", 1)) = 4
    /\ Len(EventsOf("top", 2)) = 2
    /\ EventsOf("top", 1)[2].pic.k = "shadow"
    /\ EventsOf("top", 1)[3].pic.k = "glyph"

\* The draw calls of the latest frame for the background.
BackgroundDraws == DrawsIn({"background"})

\* Whether a scene shows the image data as an entity of one of its layers.
ShowsImage(s, data) ==
    \E layer \in {s.bottom_layer, s.top_layer} :
        \E i \in DOMAIN layer : layer[i].kind = "Image" /\ layer[i].image.data = data

\* C25, in each completed frame: the background is drawn at most once, only
\* in a frame that renders the bottom layer again, after the clear and before
\* every bottom-layer entity; a shader background is the unit rectangle with
\* the full-surface transform and the background's shader; an image
\* background is the unflipped textured quad with the background's brightness
\* and opacity, its texture a blurred texture of the image at the
\* background's blur if blur > 0 and the image's memoized texture if not.
C25_Frame ==
    Completed =>
        /\ Cardinality(BackgroundDraws) <= 1
        /\ BackgroundDraws /= {} <=> (ResolvesInto("fbo") /= {} /\ scene.background /= None)
        /\ \A i \in BackgroundDraws :
               LET background == scene.background[1]
                   e == frame[i]
               IN  /\ \A j \in DrawsIn({"bottom"}) : i < j
                   /\ \A r \in ResolvesInto("fbo") : i < r
                   /\ \E c \in Clears : c < i
                   /\ e.fb = "msaa"
                   /\ e.mesh = paths[Rectangle].vertices
                   /\ background.kind = "Shader" =>
                          /\ e.tex = 0
                          /\ e.pic = Pic("full", paths[Rectangle].lyon_path, -1,
                                         10 * background.shader.a + background.shader.type,
                                         background.shader.b)
                   /\ background.kind = "Image" =>
                          /\ e.tex \in DOMAIN textures
                          /\ e.pic.k = "image"
                          /\ e.pic.a = background.image.data
                          /\ e.pic.b = background.blur
                          /\ e.pic.c = background.brightness
                          /\ e.pic.d = background.opacity
                          /\ textures[e.tex].data = background.image.data
                          /\ textures[e.tex].blur = background.blur
                          /\ background.blur > 0 => textures[e.tex].kind = "blur"
                          /\ background.blur = 0 =>
                                 /\ textures[e.tex].kind = "image"
                                 /\ images[background.image.data].texture = Some(e.tex)

\* C25, in each render call that draws an image background: with blur > 0
\* the image is not uploaded unblurred (unless an entity of the frame shows
\* it); with blur = 0 nothing is blurred, and the image is uploaded only if it
\* had no texture yet.
C25_Step ==
    (call'.op = "render" /\ ~aborted' /\ BackgroundDraws' /= {}
        /\ scene'.background[1].kind = "Image") =>
        LET background == scene'.background[1]
            data == background.image.data
        IN  /\ (background.blur > 0 /\ ~ShowsImage(scene', data)) =>
                   /\ uploads'[data] = uploads[data]
                   /\ images'[data].texture = images[data].texture
            /\ background.blur = 0 =>
                   /\ Blurred(textures') = Blurred(textures)
                   /\ uploads'[data] =
                          uploads[data] + (IF images[data].texture = None THEN 1 ELSE 0)

\* C25: background texture selection.  An image background with blur > 0 is
\* drawn with the blurred texture and never uploads the unblurred image; with
\* blur = 0 it is drawn with the memoized unblurred texture and never blurs;
\* brightness and opacity are passed as multipliers, unflipped; a solid or
\* gradient background is the unit square scaled to the output resolution;
\* the background is drawn at most once per frame, only inside a bottom-layer
\* re-render, before every bottom-layer entity.
C25_BackgroundTexture == []C25_Frame /\ [][C25_Step]_vars

\* A frame that draws a blurred image background whose image has been
\* uploaded unblurred once, by an earlier frame.
C25_Witness ==
    /\ Completed
    /\ BackgroundDraws /= {}
    /\ scene.background[1].kind = "Image"
    /\ scene.background[1].blur > 0
    /\ uploads[scene.background[1].image.data] = 1
    /\ \E i \in BackgroundDraws : textures[frame[i].tex].kind = "blur"

\* The size of a target's color storage, as the GL reports it (0 x 0 before
\* the first allocation).
Storage(fb) == target[fb].size

\* C26: the render targets' size invariant.  The resolved-cache texture and
\* the MSAA renderbuffer always have storage of the same size, fbo_size; a
\* render call that returns reallocated them, if at all, before its first
\* clear, draw or resolve, to the size it was passed, so that every clear,
\* draw and resolve of the call, the first call's included, finds both at
\* exactly that size.
C26_TargetsSized ==
    /\ Storage("fbo") = fbo_size
    /\ Storage("msaa") = fbo_size
    /\ Completed =>
          /\ Storage("fbo") = Size
          /\ Storage("msaa") = Size
          /\ \A r \in Logged("resize_fbo") : log[r].at = 0 /\ log[r].arg = Size
          /\ Cardinality(Logged("resize_fbo")) <= 1
          /\ (Len(sizes) = 2 /\ sizes[1] /= sizes[2]) => Logged("resize_fbo") /= {}
          /\ (Len(sizes) = 1 /\ Size /= <<0, 0>>) => Logged("resize_fbo") /= {}

\* The first render call of a renderer, on a surface with pixels: both
\* targets were allocated at the call's size before the frame's first clear.
C26_Witness ==
    /\ Completed
    /\ Len(sizes) = 1
    /\ Area(Size) > 0
    /\ Logged("resize_fbo") /= {}
    /\ Storage("fbo") = Size
    /\ Storage("msaa") = Size
    /\ Clears /= {}
    /\ DrawsIn({"bottom"}) /= {}

\* The latest render call was entered with the compositor dirty from a
\* resize: it is the renderer's first call, or its size differs from the
\* size of the call before.
DirtyFromResize == Len(sizes) = 1 \/ (Len(sizes) = 2 /\ sizes[1] /= sizes[2])

\* The state of the specification's compositor when the latest render call
\* decided whether to render the bottom layer.
Compositor ==
    IF \E d \in Logged("bottom_layer_dirty") : log[d].arg
    THEN "DIRTY-FROM-RESIZE"
    ELSE IF call.b THEN "DIRTY-FROM-SCENE" ELSE "CLEAN"

\* C27: the layer compositor's state machine.  A renderer starts dirty.  In
\* each render call that returns, the dirty flag as the call reads it is set
\* exactly if this is the first call or the size changed in this call; the
\* bottom layer is rendered again and resolved, once, exactly if that flag or
\* the scene's bottom-layer-changed flag is set, that is, if the compositor
\* is not CLEAN; and when the call returns bottom_layer_dirty is false and
\* fbo_size is the size passed.
C27_Compositor ==
    /\ (Live /\ sizes = <<>>) => bottom_layer_dirty
    /\ Completed =>
          /\ ~bottom_layer_dirty
          /\ fbo_size = Size
          /\ Cardinality(Logged("bottom_layer_dirty")) = 1
          /\ \A d \in Logged("bottom_layer_dirty") : log[d].arg <=> DirtyFromResize
          /\ Cardinality(ResolvesInto("fbo")) <= 1
          /\ ResolvesInto("fbo") /= {} <=> (DirtyFromResize \/ call.b)
          /\ ResolvesInto("fbo") /= {} <=> Compositor /= "CLEAN"
          /\ ResolvesInto("fbo") /= {} =>
                 PicsIn({"background", "bottom"}) = RefBottomDraws(scene)
          /\ ResolvesInto("fbo") = {} => BottomDraws = {}

\* A frame whose size is the size of the call before and whose scene has the
\* flag set: the bottom layer is rendered again from DIRTY-FROM-SCENE.
C27_Witness ==
    /\ Completed
    /\ Len(sizes) = 2
    /\ sizes[1] = sizes[2]
    /\ Compositor = "DIRTY-FROM-SCENE"
    /\ ResolvesInto("fbo") /= {}
    /\ BottomDraws /= {}
    /\ ~bottom_layer_dirty

\* What a render call that ran to completion leaves: no panic, the scene
\* update made and its value returned, every top-layer entity visited, and
\* as its last GL call the one resolve of the MSAA framebuffer to the output
\* surface.
RanToCompletion ==
    /\ ~aborted
    /\ Logged("update_scene") /= {}
    /\ \A u \in Logged("update_scene") : returned = log[u].arg.new_resolution
    /\ PicsIn({"top"}) = RefLayer(scene.top_layer, 1)
    /\ Cardinality(ResolvesInto("default")) = 1
    /\ \A r \in ResolvesInto("default") : r = Len(frame) /\ frame[r].src = "msaa"

ShaderOf(event) ==
    [type |-> event.pic.c % 10, a |-> event.pic.c \div 10, b |-> event.pic.d]

\* C32: the colors of a label's glyphs.  For every label a frame renders:
\* each glyph draw uses the glyph's override color as a solid fill when the
\* glyph has one and the label's fill shader otherwise; each shadow draw
\* uses a solid color whose RGB is the shadow color's and whose alpha is the
\* shadow color's alpha times the label's alpha (the fill alpha of a solid
\* shader, the mean of the two endpoint alphas of either gradient), whether
\* or not the glyph has an override color.
C32_GlyphColors ==
    Completed =>
        \A n \in DOMAIN LayersRendered :
            \A idx \in DOMAIN EntitiesOf(LayersRendered[n]) :
                LET label == EntitiesOf(LayersRendered[n])[idx]
                    events == EventsOf(LayersRendered[n], idx)
                    present == Present(label.glyphs)
                    k == Len(present)
                    shadows == IF label.shadow /= None THEN k ELSE 0
                    alpha == IF label.shader.type = 0
                             THEN label.shader.a % 10
                             ELSE ((label.shader.a % 10) + (label.shader.b % 10)) \div 2
                IN  label.kind = "Label" =>
                        /\ Len(events) = shadows + k
                        /\ \A i \in 1..shadows :
                               /\ events[i].pic.k = "shadow"
                               /\ ShaderOf(events[i]).type = 0
                               /\ ShaderOf(events[i]).a \div 10 = label.shadow[1] \div 10
                               /\ ShaderOf(events[i]).a % 10
                                     = ((label.shadow[1] % 10) * alpha) \div ALPHA_ONE
                               /\ ShaderOf(events[i]).b = 0
                        /\ \A i \in 1..k :
                               /\ events[shadows + i].pic.k = "glyph"
                               /\ ShaderOf(events[shadows + i])
                                     = IF present[i].color /= None
                                       THEN [type |-> 0, a |-> present[i].color[1], b |-> 0]
                                       ELSE label.shader

\* A frame with the three shadowed labels, a horizontal gradient, a vertical
\* gradient and a solid fill: glyphs in the label's shader and in their own
\* color, shadows at the product of the alphas.
C32_Witness ==
    /\ Completed
    /\ scene.top_layer = TopA
    /\ Len(EventsOf("top", 1)) = 4
    /\ ShaderOf(EventsOf("top", 1)[1]) = SolidColor(Color(0, 1))
    /\ ShaderOf(EventsOf("top", 1)[2]) = SolidColor(Color(0, 1))
    /\ ShaderOf(EventsOf("top", 1)[3]) = HorizontalGradient(Red, Clear)
    /\ ShaderOf(EventsOf("top", 1)[4]) = SolidColor(Blue)
    /\ Len(EventsOf("top", 3)) = 4
    /\ ShaderOf(EventsOf("top", 3)[1]) = SolidColor(Color(4, 3))
    /\ ShaderOf(EventsOf("top", 3)[3]) = SolidColor(Red)
    /\ ShaderOf(EventsOf("top", 3)[4]) = VerticalGradient(Blue, Red)
    /\ Len(EventsOf("top", 4)) = 2
    /\ ShaderOf(EventsOf("top", 4)[1]) = SolidColor(Color(4, 1))
    /\ ShaderOf(EventsOf("top", 4)[2]) = SolidColor(Blue)

\* C33, in each state: blur_cache is None; each blurred request recorded was
\* a miss that blurred on the CPU and uploaded into a texture of its own,
\* for the image and blur asked; no blurred texture has been deleted.
C33_State ==
    /\ blur_cache = None
    /\ \A i \in DOMAIN blurLog :
          /\ blurLog[i].blur_value > 0
          /\ blurLog[i].uploaded
          /\ blurLog[i].texture \in Blurred(textures)
          /\ textures[blurLog[i].texture].data = blurLog[i].source
          /\ textures[blurLog[i].texture].blur = blurLog[i].blur_value
          /\ \A j \in DOMAIN blurLog : blurLog[j].texture = blurLog[i].texture => j = i
    /\ Blurred(textures) \cap deleted_textures = {}

\* C33, in each step: a completed render call creates one blurred texture
\* if it renders the bottom layer again over an image background with
\* blur > 0, the one the background is drawn with, and none otherwise;
\* destroy deletes no blurred texture.
C33_Step ==
    /\ (call'.op = "render" /\ ~aborted') =>
          LET fresh == Blurred(textures') \ Blurred(textures)
              blurs == /\ ResolvesInto("fbo")' /= {}
                       /\ scene'.background /= None
                       /\ scene'.background[1].kind = "Image"
                       /\ scene'.background[1].blur > 0
          IN  /\ Cardinality(fresh) = IF blurs THEN 1 ELSE 0
              /\ blurs => /\ BackgroundDraws' /= {}
                          /\ \A i \in BackgroundDraws' : frame'[i].tex \in fresh
    /\ call'.op = "destroy" =>
          /\ Blurred(textures') = Blurred(textures)
          /\ deleted_textures' \cap Blurred(textures') = {}

WritesInto(fb) == {i \in DOMAIN frame : frame[i].fb = fb}

\* C35, in each state: the only GL call of a frame that targets the cached
\* texture's framebuffer is the resolve from the MSAA framebuffer that ends
\* a bottom-layer re-render: at most one per frame, after every background
\* and bottom-layer draw, before the cache is sampled and before every
\* top-layer draw; no clear and no draw targets it.
C35_Frame ==
    /\ Cardinality(WritesInto("fbo")) <= 1
    /\ \A i \in WritesInto("fbo") :
          /\ frame[i].op = "resolve"
          /\ frame[i].src = "msaa"
          /\ \E j \in Logged("bottom_layer_changed") \cup Logged("bottom_layer_dirty") :
                log[j].arg = TRUE
          /\ \A j \in DrawsIn({"background", "bottom"}) : j < i
          /\ \A j \in DrawsIn({"blit", "top"}) : i < j
          /\ \A j \in ResolvesInto("default") \cup ResolvesInto("user") : i < j
          /\ \E j \in Clears : j < i

\* C35, in each step: the cached texture changes only in a render call that
\* resolves into it or resizes the targets; a completed frame that reuses
\* the bottom layer leaves it exactly as it was.
C35_Step ==
    /\ target'["fbo"] /= target["fbo"]
          => /\ call'.op = "render"
             /\ WritesInto("fbo")' /= {} \/ Logged("resize_fbo")' /= {}
    /\ (call'.op = "render" /\ ~aborted' /\ ResolvesInto("fbo")' = {})
          => /\ target'["fbo"] = target["fbo"]
             /\ Logged("resize_fbo")' = {}
             /\ sampled' = Some(target["fbo"])

\* C35: the resolved-cache target is written only by the resolve step of a
\* bottom-layer re-render and reallocated only by a resize: no top-layer
\* draw, composition draw or final resolve has it as draw target, and a frame
\* that reuses the bottom layer leaves its contents unchanged.
C35_CacheWrittenByResolveOnly == []C35_Frame /\ [][C35_Step]_vars

\* A frame that reuses the bottom layer and draws a top layer over it: the
\* cached texture holds an earlier frame's bottom layer, and nothing of the
\* frame targets it.
C35_Witness ==
    /\ Completed
    /\ WritesInto("fbo") = {}
    /\ DrawsIn({"blit"}) /= {}
    /\ DrawsIn({"top"}) /= {}
    /\ target["fbo"].pics /= <<>>
    /\ sampled = Some(target["fbo"])
    /\ ResolvesInto("default") /= {}

\* The GL objects that exist: created and not deleted.
Leaked == {o \in DOMAIN objects : objects[o].created > objects[o].deleted}

\* C36 as stated: failed initialization leaks nothing.  Whenever new returns
\* an error, every GL object created during the call (programs, shaders,
\* vertex array, buffers, framebuffers, texture, renderbuffer) has been
\* deleted before the error is returned.
C36_AsStated ==
    (call.op = "new" /\ result /= None /\ ~result[1].ok) => Leaked = {}

(* ------------- the stroke cache on its own (allocator.rs tests) -------- *)

\* One GlPath, as PathBuilder::finish returns it.
InitStroke ==
    /\ \E outline \in Outlines : paths = <<new(outline)>>
    /\ lastReq = <<None>>
    /\ strokeLog = <<>>
    /\ images = <<>>
    /\ textures = <<>>
    /\ uploads = <<>>
    /\ blur_cache = None
    /\ fbo_size = <<0, 0>>
    /\ bottom_layer_dirty = TRUE
    /\ scene = NoScene
    /\ target = [fb \in Framebuffers |-> Picture(<<0, 0>>, <<>>)]
    /\ frame = <<>>
    /\ sampled = None
    /\ sizes = <<>>
    /\ aborted = FALSE
    /\ objects = NoObjects
    /\ deleted_textures = {}
    /\ blurLog = <<>>
    /\ result = None
    /\ destroyed = FALSE
    /\ threads = <<>>
    /\ locks = [l \in {"stroke_cache", "texture"} |-> Unlocked]
    /\ writes = 0
    /\ entry = "default"
    /\ log = <<>>
    /\ returned = None
    /\ context_lost = FALSE
    /\ args = <<>>
    /\ ret = None
    /\ call = Call("finish", 0, 0)

\* A direct call tessellate_stroke(&paths[obj], stroke_width).
TessellateStroke(obj, stroke_width) ==
    LET st == StrokeRequest([paths |-> paths, lastReq |-> lastReq, strokeLog |-> <<>>],
                            obj, stroke_width)
    IN  /\ paths' = st.paths
        /\ lastReq' = st.lastReq
        /\ strokeLog' = st.strokeLog
        /\ call' = Call("tessellate_stroke", obj, stroke_width)
        /\ UNCHANGED rendererVars
        /\ UNCHANGED lockVars
        /\ UNCHANGED callVars
        /\ UNCHANGED frameVars

\* SharedOwnership::share(&paths[obj]) (= clone): a new GlPath object.
Share(obj) ==
    /\ Len(paths) < MaxPaths
    /\ paths' = Append(paths, share(paths[obj]))
    /\ lastReq' = Append(lastReq, None)
    /\ strokeLog' = <<>>
    /\ call' = Call("share", obj, Len(paths) + 1)
    /\ UNCHANGED rendererVars
    /\ UNCHANGED lockVars
    /\ UNCHANGED callVars
    /\ UNCHANGED frameVars

NextStroke ==
    \/ \E obj \in DOMAIN paths, w \in Widths : TessellateStroke(obj, w)
    \/ \E obj \in DOMAIN paths : Share(obj)

SpecStroke == InitStroke /\ [][NextStroke]_vars

(* ----------------------- the stroke cache: claims ---------------------- *)

\* The requests of the latest operation that follow a request on the same
\* GlPath object.
Followers == {i \in DOMAIN strokeLog : strokeLog[i].prev /= None}

\* C7: stroke cache hit.  A request tessellate_stroke(S, w) that follows a
\* request tessellate_stroke(S, w) on the same GlPath which returned geometry
\* returns the very same vertex and index buffers, those held by the cache,
\* does not run the stroke tessellator and leaves the cache entry unchanged.
C7_StrokeCacheHit ==
    \A i \in Followers :
        LET e == strokeLog[i]
            first == e.prev[1]
        IN  (first.width = e.width /\ first.ret /= None)
            => /\ ~e.tessellated
               /\ e.ret = first.ret
               /\ e.before /= None
               /\ e.ret[1].vertices = e.before[1].vertices
               /\ e.ret[1].indices = e.before[1].indices
               /\ e.after = e.before

\* A direct request repeated at the width that was just tessellated.
C7_Witness ==
    /\ call.op = "tessellate_stroke"
    /\ \E i \in Followers :
          /\ strokeLog[i].prev[1].width = strokeLog[i].width
          /\ strokeLog[i].prev[1].ret /= None
          /\ strokeLog[i].ret /= None

\* The request pairs stroke(S, w1), stroke(S, w2) with |w1 - w2| > epsilon.
FarFollowers ==
    {i \in Followers : Abs(strokeLog[i].prev[1].width - strokeLog[i].width) > EPSILON}

\* Whether a request on `path` at `width` would run the tessellator.
WouldTessellate(path, width) == tessellate_stroke(path, width, 0).tessellated

SameShape(p, q) == p.vertices.arc = q.vertices.arc /\ p.indices.arc = q.indices.arc

\* C9 as stated: the references to one Shape share one cache entry, and a
\* request at a width that another reference to the Shape holds in its cache
\* is a hit that runs no tessellation.
C9_AsStated ==
    /\ \A i, j \in DOMAIN paths :
          SameShape(paths[i], paths[j]) => paths[i].stroke_cache = paths[j].stroke_cache
    /\ \A i \in DOMAIN strokeLog, j \in DOMAIN paths :
          LET e == strokeLog[i]
          IN  (/\ j /= e.obj
               /\ SameShape(paths[j], paths[e.obj])
               /\ cached_stroke(paths[j], e.width) /= None)
              => ~e.tessellated

\* C30, in each step: a step that adds a GlPath object is a share of an
\* existing one; the new object's vertex buffer, index buffer and outline
\* are the Arcs of the original, and every object that existed, the
\* original included, is as it was.
C30_Step ==
    Len(paths') > Len(paths) =>
        /\ call'.op = "share"
        /\ call'.a \in DOMAIN paths
        /\ call'.b = Len(paths')
        /\ paths'[call'.b].vertices = paths[call'.a].vertices
        /\ paths'[call'.b].vertices.arc = paths[call'.a].vertices.arc
        /\ paths'[call'.b].indices = paths[call'.a].indices
        /\ paths'[call'.b].indices.arc = paths[call'.a].indices.arc
        /\ paths'[call'.b].lyon_path = paths[call'.a].lyon_path
        /\ \A obj \in DOMAIN paths : paths'[obj] = paths[obj]

\* C30: sharing a shape is a reference-count bump, not a copy.  share(p) and
\* clone return a GlPath whose vertex buffer, index buffer and retained
\* outline are pointer-equal to p's, and leave p unchanged.
C30_ShareIsNoCopy == [][C30_Step]_vars

\* After the share of a shape that holds a cached stroke: the clone has the
\* original's Arcs, the original still has its stroke.
C30_Witness ==
    /\ call.op = "share"
    /\ paths[call.a].stroke_cache /= None
    /\ paths[call.b].vertices.arc = paths[call.a].vertices.arc
    /\ paths[call.b].indices.arc = paths[call.a].indices.arc
    /\ paths[call.b].lyon_path = paths[call.a].lyon_path

\* C31: the width comparison of the stroke cache.  A request at width w is a
\* hit, returning the cached buffers without running the tessellator, exactly
\* when the GlPath has a cache entry and |entry.width - w| < epsilon; the
\* comparison is against the stored width, which a hit does not rewrite, and
\* a request whose width differs from it by epsilon or more is a miss, even
\* when the request before it was closer than epsilon.
C31_WidthComparison ==
    \A i \in DOMAIN strokeLog :
        LET e == strokeLog[i]
            near == e.before /= None /\ Abs(e.before[1].width - e.width) < EPSILON
        IN  /\ ~e.tessellated <=> near
            /\ near => /\ e.ret /= None
                       /\ e.ret[1].vertices = e.before[1].vertices
                       /\ e.ret[1].indices = e.before[1].indices
                       /\ e.after = e.before
                       /\ e.after[1].width = e.before[1].width
            /\ (e.before /= None /\ Abs(e.before[1].width - e.width) >= EPSILON)
                  => /\ e.tessellated
                     /\ cached_stroke(paths[e.obj], e.width) /= None => e.after /= e.before

\* Widths drifting away from the stored one: a request closer than epsilon
\* to the stored width was a hit, and the next one, closer than epsilon to
\* that request but not to the stored width, is a miss.
C31_Witness ==
    /\ call.op = "tessellate_stroke"
    /\ \E i \in Followers :
          LET e == strokeLog[i]
          IN  /\ e.before /= None
              /\ e.prev[1].width /= e.before[1].width
              /\ Abs(e.prev[1].width - e.before[1].width) < EPSILON
              /\ Abs(e.width - e.prev[1].width) < EPSILON
              /\ Abs(e.width - e.before[1].width) >= EPSILON
              /\ e.tessellated
              /\ e.ret /= None

\* C34: a failed stroke request leaves the cache alone.  A request whose
\* tessellation fails or yields no geometry returns absent and leaves the
\* GlPath's cache entry exactly as it was: an entry cached for another width
\* is neither replaced nor cleared, and the request that follows the failed
\* one at the cached width is a hit on that entry.
C34_FailureKeepsCache ==
    \A i \in DOMAIN strokeLog :
        LET e == strokeLog[i]
        IN  /\ e.ret = None
                  => /\ e.tessellated
                     /\ ~StrokeTessellator(paths[e.obj].lyon_path, e.width)
                     /\ e.after = e.before
            /\ (e.ret = None /\ i = Len(strokeLog) /\ e.before /= None)
                  => /\ paths[e.obj].stroke_cache = e.before
                     /\ Abs(e.before[1].width - e.width) >= EPSILON
            /\ (/\ e.prev /= None
                /\ e.prev[1].ret = None
                /\ e.before /= None
                /\ Abs(e.before[1].width - e.width) < EPSILON)
                  => /\ ~e.tessellated
                     /\ e.ret /= None
                     /\ e.ret[1].vertices = e.before[1].vertices
                     /\ e.ret[1].indices = e.before[1].indices

\* A request at the cached width right after a request at another width
\* failed: a hit on the entry the failure left in place.
C34_Witness ==
    /\ call.op = "tessellate_stroke"
    /\ \E i \in Followers :
          LET e == strokeLog[i]
          IN  /\ e.prev[1].ret = None
              /\ e.prev[1].width /= e.width
              /\ e.before /= None
              /\ e.before[1].width = e.width
              /\ ~e.tessellated
              /\ e.ret /= None

(* --------------- the caches under concurrent access -------------------- *)

\* One GlPath and one GlImageData, reached from every thread.  A thread runs
\* one cache operation at a time: cached_stroke, set_stroke_cache,
\* ensure_texture, a read of the texture handle through its RwLock, or a
\* whole tessellate_stroke request (cached_stroke, then on a miss the
\* tessellator and set_stroke_cache); `request` marks the operations of a
\* tessellate_stroke request.
Threads == 1..MaxThreads

\* Two stroke widths that differ by EPSILON or more.
LockWidths == {1, MaxWidth}

Idle ==
    [op |-> "idle", pc |-> "", width |-> 0, arc |-> 0, seen |-> <<>>, ret |-> <<>>,
     request |-> FALSE]

InitLocks ==
    /\ paths = <<new(2)>>
    /\ lastReq = <<None>>
    /\ strokeLog = <<>>
    /\ images = <<[pixels |-> 1, width |-> 2, height |-> 1, texture |-> None]>>
    /\ textures = <<>>
    /\ uploads = <<0>>
    /\ blur_cache = None
    /\ fbo_size = <<0, 0>>
    /\ bottom_layer_dirty = TRUE
    /\ scene = NoScene
    /\ target = [fb \in Framebuffers |-> Picture(<<0, 0>>, <<>>)]
    /\ frame = <<>>
    /\ sampled = None
    /\ sizes = <<>>
    /\ aborted = FALSE
    /\ objects = NoObjects
    /\ deleted_textures = {}
    /\ blurLog = <<>>
    /\ result = None
    /\ destroyed = FALSE
    /\ threads = [t \in Threads |-> Idle]
    /\ locks = [l \in {"stroke_cache", "texture"} |-> Unlocked]
    /\ writes = 0
    /\ entry = "default"
    /\ log = <<>>
    /\ returned = None
    /\ context_lost = FALSE
    /\ args = <<>>
    /\ ret = None
    /\ call = Call("spawn", 0, 0)

\* What the cache operations leave alone.
restVars ==
    <<lastReq, strokeLog, blur_cache, fbo_size, bottom_layer_dirty, scene, target, frame,
      sampled, sizes, aborted, objects, deleted_textures, blurLog, result, destroyed,
      args, ret, entry, log, returned, context_lost>>

\* The lock an operation takes, and whether it takes it for writing.
LockOf(op) == IF op \in {"cached_stroke", "set_stroke_cache"} THEN "stroke_cache" ELSE "texture"
Writes(op) == op \in {"set_stroke_cache", "ensure_texture"}

\* The operations that may allocate buffers: `writes` numbers their Arcs.
Allocates(op) == op \in {"set_stroke_cache", "tessellate_stroke"}

\* A thread calls an operation; a set_stroke_cache call brings buffers in
\* Arcs of its own, and tessellate_stroke starts with cached_stroke (line
\* 97) and has an Arc address set aside for the buffers of a miss.
Begin(t, op, width) ==
    /\ threads[t].op = "idle"
    /\ Allocates(op) => writes < MaxWrites
    /\ writes' = IF Allocates(op) THEN writes + 1 ELSE writes
    /\ threads' = [threads EXCEPT ![t] =
                      [Idle EXCEPT !.op = IF op = "tessellate_stroke"
                                          THEN "cached_stroke"
                                          ELSE op,
                                   !.pc = "lock", !.width = width,
                                   !.arc = IF Allocates(op) THEN writes + 1 ELSE 0,
                                   !.request = (op = "tessellate_stroke")]]
    /\ call' = Call(op, t, width)
    /\ UNCHANGED <<paths, images, textures, uploads, locks>>
    /\ UNCHANGED restVars

\* stroke_cache.read() / .write(), texture.write() / .read() return.
Acquire(t) ==
    LET op == threads[t].op
        lock == locks[LockOf(op)]
    IN  /\ op /= "idle"
        /\ threads[t].pc = "lock"
        /\ IF Writes(op) THEN CanWrite(lock) ELSE CanRead(lock)
        /\ locks' = [locks EXCEPT ![LockOf(op)] =
                        IF Writes(op)
                        THEN [lock EXCEPT !.writer = Some(t)]
                        ELSE [lock EXCEPT !.readers = @ \cup {t}]]
        /\ threads' = [threads EXCEPT ![t].pc =
                          CASE op = "cached_stroke" -> "width"
                            [] op = "set_stroke_cache" -> "width"
                            [] op = "ensure_texture" -> "check"
                            [] op = "texture.read" -> "handle"]
        /\ call' = Call("lock", t, 0)
        /\ UNCHANGED <<paths, images, textures, uploads, writes>>
        /\ UNCHANGED restVars

\* cached_stroke under the read guard, one memory read per step: the
\* width and its test, then the clones of the two Arcs.
CachedStroke(t) ==
    LET th == threads[t]
        cache == paths[1].stroke_cache
    IN  /\ th.op = "cached_stroke"
        /\ th.pc \in {"width", "vertices", "indices"}
        /\ threads' = [threads EXCEPT ![t] =
              CASE th.pc = "width" /\ cache = None ->
                      [th EXCEPT !.pc = "unlock", !.ret = <<None>>]
                [] th.pc = "width" /\ cache /= None ->
                      IF Abs(cache[1].width - th.width) < EPSILON
                      THEN [th EXCEPT !.pc = "vertices", !.seen = <<cache[1].width>>]
                      ELSE [th EXCEPT !.pc = "unlock", !.seen = <<cache[1].width>>,
                                      !.ret = <<None>>]
                [] th.pc = "vertices" ->
                      [th EXCEPT !.pc = "indices", !.seen = Append(@, cache[1].vertices)]
                [] th.pc = "indices" ->
                      [th EXCEPT !.pc = "unlock", !.seen = Append(@, cache[1].indices),
                                 !.ret = <<Some([vertices |-> th.seen[2],
                                                 indices |-> cache[1].indices])>>]]
        /\ call' = Call("cached_stroke", t, th.width)
        /\ UNCHANGED <<paths, images, textures, uploads, locks, writes>>
        /\ UNCHANGED restVars

\* set_stroke_cache under the write guard, one memory write per step: the
\* new entry's width, vertices and indices; the last one completes
\* *cache = Some(StrokeCache { width, vertices, indices }).
SetStrokeCache(t) ==
    LET th == threads[t]
        cache == paths[1].stroke_cache
        old == IF cache = None
               THEN [width |-> 0, vertices |-> NoBuffer, indices |-> NoBuffer]
               ELSE cache[1]
        buffer == Buffer(th.arc, paths[1].lyon_path, th.width)
    IN  /\ th.op = "set_stroke_cache"
        /\ th.pc \in {"width", "vertices", "indices"}
        /\ paths' = [paths EXCEPT ![1] =
              CASE th.pc = "width" ->
                      [@ EXCEPT !.stroke_cache = Some([old EXCEPT !.width = th.width])]
                [] th.pc = "vertices" ->
                      [@ EXCEPT !.stroke_cache = Some([old EXCEPT !.vertices = buffer])]
                [] th.pc = "indices" -> set_stroke_cache(@, th.width, buffer, buffer)]
        /\ threads' = [threads EXCEPT ![t].pc =
                          CASE th.pc = "width" -> "vertices"
                            [] th.pc = "vertices" -> "indices"
                            [] th.pc = "indices" -> "unlock"]
        /\ call' = Call("set_stroke_cache", t, th.width)
        /\ UNCHANGED <<images, textures, uploads, locks, writes>>
        /\ UNCHANGED restVars

\* ensure_texture under the write guard: the test of the handle, then
\* create_texture, tex_image_2d and *tex_lock = Some(texture).
EnsureTexture(t) ==
    LET th == threads[t]
    IN  /\ th.op = "ensure_texture"
        /\ th.pc \in {"check", "create", "upload", "store"}
        /\ threads' = [threads EXCEPT ![t] =
              CASE th.pc = "check" ->
                      IF images[1].texture /= None
                      THEN [th EXCEPT !.pc = "unlock", !.ret = images[1].texture]
                      ELSE [th EXCEPT !.pc = "create"]
                [] th.pc = "create" ->
                      [th EXCEPT !.pc = "upload", !.seen = <<Len(textures) + 1>>]
                [] th.pc = "upload" -> [th EXCEPT !.pc = "store"]
                [] th.pc = "store" -> [th EXCEPT !.pc = "unlock", !.ret = th.seen]]
        /\ textures' = IF th.pc = "create"
                       THEN Append(textures, [kind |-> "image", data |-> 1, blur |-> 0])
                       ELSE textures
        /\ uploads' = IF th.pc = "upload" THEN [uploads EXCEPT ![1] = @ + 1] ELSE uploads
        /\ images' = IF th.pc = "store"
                     THEN [images EXCEPT ![1].texture = Some(th.seen[1])]
                     ELSE images
        /\ call' = Call("ensure_texture", t, 0)
        /\ UNCHANGED <<paths, locks, writes>>
        /\ UNCHANGED restVars

\* *data.texture.read(): the handle, and with it how many uploads of the
\* image's pixels had completed when it was read.
TextureRead(t) ==
    LET th == threads[t]
    IN  /\ th.op = "texture.read"
        /\ th.pc = "handle"
        /\ threads' = [threads EXCEPT ![t] =
                          [th EXCEPT !.pc = "unlock", !.ret = images[1].texture,
                                     !.seen = <<uploads[1]>>]]
        /\ call' = Call("texture.read", t, 0)
        /\ UNCHANGED <<paths, images, textures, uploads, locks, writes>>
        /\ UNCHANGED restVars

\* The guard is dropped and the operation returns; the cached_stroke of a
\* tessellate_stroke request that found nothing returns into the request,
\* which goes on to the tessellator.
Release(t) ==
    LET op == threads[t].op
        th == threads[t]
    IN  /\ th.pc = "unlock"
        /\ locks' = [locks EXCEPT ![LockOf(op)] =
                        [readers |-> @.readers \ {t},
                         writer |-> IF @.writer = Some(t) THEN None ELSE @.writer]]
        /\ threads' = [threads EXCEPT ![t] =
                          IF th.request /\ op = "cached_stroke" /\ th.ret = <<None>>
                          THEN [th EXCEPT !.op = "tessellate", !.pc = "run",
                                          !.seen = <<>>, !.ret = <<>>]
                          ELSE Idle]
        /\ call' = Call("unlock", t, 0)
        /\ UNCHANGED <<paths, images, textures, uploads, writes>>
        /\ UNCHANGED restVars

\* tessellate_stroke after a miss (lines 102-124), no guard held: the
\* tessellator runs; with geometry the request goes on to set_stroke_cache
\* with the new buffers, without it returns None.
Tessellate(t) ==
    LET th == threads[t]
    IN  /\ th.op = "tessellate"
        /\ th.pc = "run"
        /\ threads' = [threads EXCEPT ![t] =
                          IF StrokeTessellator(paths[1].lyon_path, th.width)
                          THEN [th EXCEPT !.op = "set_stroke_cache", !.pc = "lock"]
                          ELSE Idle]
        /\ call' = Call("tessellate", t, th.width)
        /\ UNCHANGED <<paths, images, textures, uploads, locks, writes>>
        /\ UNCHANGED restVars

NextLocks ==
    \/ \E t \in Threads, op \in {"cached_stroke", "set_stroke_cache", "tessellate_stroke"},
             w \in LockWidths :
          Begin(t, op, w)
    \/ \E t \in Threads, op \in {"ensure_texture", "texture.read"} : Begin(t, op, 0)
    \/ \E t \in Threads : Acquire(t)
    \/ \E t \in Threads : CachedStroke(t)
    \/ \E t \in Threads : SetStrokeCache(t)
    \/ \E t \in Threads : Tessellate(t)
    \/ \E t \in Threads : EnsureTexture(t)
    \/ \E t \in Threads : TextureRead(t)
    \/ \E t \in Threads : Release(t)

SpecLocks == InitLocks /\ [][NextLocks]_vars

(* ------------------- the caches under concurrency: claims -------------- *)

\* An entry as one set_stroke_cache call wrote it: both buffers from the
\* Arcs of one call, tessellated at the entry's width.
Whole(width, vertices, indices) ==
    /\ vertices.arc >= 1
    /\ indices.arc = vertices.arc
    /\ vertices.stroke = width
    /\ indices.stroke = width

\* C20: no torn cache entries.  Under every interleaving of readers and
\* writers, what a reader of the stroke cache has read is no entry or the
\* width, vertices and indices one set_stroke_cache call wrote, never a
\* width of one write with a buffer of another; and a reader of an image's
\* texture handle that reads a populated handle reads it after the upload of
\* the pixels into that texture has completed.
C20_NoTornEntries ==
    \A t \in DOMAIN threads :
        LET th == threads[t]
        IN  /\ th.op = "cached_stroke" =>
                  /\ Len(th.seen) >= 2 => (th.seen[2].arc >= 1 /\ th.seen[2].stroke = th.seen[1])
                  /\ Len(th.seen) = 3 => Whole(th.seen[1], th.seen[2], th.seen[3])
                  /\ (th.ret /= <<>> /\ th.ret[1] /= None) =>
                        /\ Whole(th.seen[1], th.ret[1][1].vertices, th.ret[1][1].indices)
                        /\ Abs(th.seen[1] - th.width) < EPSILON
            /\ (th.op \in {"texture.read", "ensure_texture"} /\ th.ret /= <<>>) =>
                  /\ th.ret[1] \in DOMAIN textures
                  /\ uploads[1] = 1
                  /\ th.op = "texture.read" => th.seen = <<1>>

\* A reader holds a whole entry of the first write while the writer of a
\* second entry waits for the lock, and the image's texture is uploaded.
C20_Witness ==
    /\ threads /= <<>>
    /\ \E r, w \in DOMAIN threads :
          /\ threads[r].op = "cached_stroke"
          /\ threads[r].pc = "unlock"
          /\ threads[r].ret /= <<>>
          /\ threads[r].ret[1] /= None
          /\ threads[r].ret[1][1].vertices.arc = 1
          /\ threads[w].op = "set_stroke_cache"
          /\ threads[w].pc = "lock"
          /\ threads[w].arc = 2
    /\ images[1].texture /= None

\* What a tessellate_stroke request in flight has in hand to return: the
\* cache's vertex buffer after a hit, its own new buffer after a miss.
InHand(th) ==
    IF th.request /\ th.op = "set_stroke_cache"
    THEN Some(Buffer(th.arc, paths[1].lyon_path, th.width))
    ELSE IF th.request /\ th.op = "cached_stroke" /\ th.ret /= <<>> /\ th.ret[1] /= None
         THEN Some(th.ret[1][1].vertices)
         ELSE None

\* The ensure_texture half of C37: under concurrent ensure_texture calls on
\* one Image the pixels are uploaded once, into one texture, and every
\* caller is handed that texture.
C37_UploadOnce ==
    /\ Len(textures) <= 1
    /\ uploads[1] <= 1
    /\ images[1].texture /= None => (uploads[1] = 1 /\ images[1].texture = Some(1))
    /\ \A t \in DOMAIN threads :
          (threads[t].op = "ensure_texture" /\ threads[t].ret /= <<>>)
              => (threads[t].ret = Some(1) /\ uploads[1] = 1)

Coords == {NEG_INFINITY, INFINITY} \cup (-MaxCoord..MaxCoord)

\* The vertex lists of up to MaxVertices vertices.
VertexLists == UNION {[1..n -> Coords \X Coords] : n \in 0..MaxVertices}

\* A vertex list and an axis, before the call.
InitBounds ==
    /\ paths = <<>>
    /\ lastReq = <<>>
    /\ strokeLog = <<>>
    /\ images = <<>>
    /\ textures = <<>>
    /\ uploads = <<>>
    /\ blur_cache = None
    /\ fbo_size = <<0, 0>>
    /\ bottom_layer_dirty = TRUE
    /\ scene = NoScene
    /\ target = [fb \in Framebuffers |-> Picture(<<0, 0>>, <<>>)]
    /\ frame = <<>>
    /\ sampled = None
    /\ sizes = <<>>
    /\ aborted = FALSE
    /\ objects = NoObjects
    /\ deleted_textures = {}
    /\ blurLog = <<>>
    /\ result = None
    /\ destroyed = FALSE
    /\ threads = <<>>
    /\ locks = [l \in {"stroke_cache", "texture"} |-> Unlocked]
    /\ writes = 0
    /\ entry = "default"
    /\ log = <<>>
    /\ returned = None
    /\ context_lost = FALSE
    /\ \E vertices \in VertexLists, axis \in {0, 1} :
          args = [vertices |-> vertices, axis |-> axis]
    /\ ret = None
    /\ call = Call("main", 0, 0)

\* The call vertex_bounds(&vertices, axis).
VertexBounds ==
    /\ ret = None
    /\ ret' = Some(vertex_bounds(args.vertices, args.axis))
    /\ call' = Call("vertex_bounds", 0, 0)
    /\ UNCHANGED <<args, paths, images, textures, uploads, threads, locks, writes>>
    /\ UNCHANGED <<lastReq, strokeLog, blur_cache, fbo_size, bottom_layer_dirty, scene,
                   target, frame, sampled, sizes, aborted, objects, deleted_textures,
                   blurLog, result, destroyed, entry, log, returned,
                   context_lost>>

NextBounds == VertexBounds

SpecBounds == InitBounds /\ [][NextBounds]_vars

(* ------------------------ vertex_bounds: claims ------------------------ *)

\* The coordinates of a vertex list on an axis.
Along(vertices, axis) == {Coordinate(vertices[i], axis) : i \in DOMAIN vertices}

\* The list with every coordinate of the other axis replaced by v.
Flattened(vertices, axis, v) ==
    [i \in DOMAIN vertices |->
        IF axis = 0 THEN <<vertices[i][1], v>> ELSE <<v, vertices[i][2]>>]

\* C21: vertex_bounds matches the reference minimum and maximum.  For every
\* non-empty vertex list and either axis it returns [min, max] of that
\* axis' coordinates over all vertices, so min <= max and [v, v] for one
\* vertex; for the empty list it returns [0, 0]; the coordinates of the
\* other axis do not influence the result.
C21_VertexBounds ==
    ret /= None =>
        LET along == Along(args.vertices, args.axis)
        IN  /\ args.vertices = <<>> => ret[1] = <<0, 0>>
            /\ args.vertices /= <<>> =>
                  /\ ret[1][1] \in along
                  /\ ret[1][2] \in along
                  /\ \A c \in along : ret[1][1] <= c /\ c <= ret[1][2]
                  /\ ret[1][1] <= ret[1][2]
            /\ Len(args.vertices) = 1 =>
                  ret[1] = <<Coordinate(args.vertices[1], args.axis),
                             Coordinate(args.vertices[1], args.axis)>>
            /\ \A v \in Coords :
                  vertex_bounds(Flattened(args.vertices, args.axis, v), args.axis) = ret[1]

\* The bounds of two vertices whose order on the axis is the reverse of
\* their order on the other axis.
C21_Witness ==
    /\ ret /= None
    /\ args.axis = 1
    /\ args.vertices = <<<<1, -1>>, <<0, 1>>>>
    /\ ret[1] = <<-1, 1>>

(* ---------------------- create_image on its own ------------------------ *)

\* The byte sequences of up to MaxBytes bytes.
ByteSequences == UNION {[1..n -> 0..MaxByte] : n \in 0..MaxBytes}

\* A byte sequence, before the call.
InitImage ==
    /\ paths = <<>>
    /\ lastReq = <<>>
    /\ strokeLog = <<>>
    /\ images = <<>>
    /\ textures = <<>>
    /\ uploads = <<>>
    /\ blur_cache = None
    /\ fbo_size = <<0, 0>>
    /\ bottom_layer_dirty = TRUE
    /\ scene = NoScene
    /\ target = [fb \in Framebuffers |-> Picture(<<0, 0>>, <<>>)]
    /\ frame = <<>>
    /\ sampled = None
    /\ sizes = <<>>
    /\ aborted = FALSE
    /\ objects = NoObjects
    /\ deleted_textures = {}
    /\ blurLog = <<>>
    /\ result = None
    /\ destroyed = FALSE
    /\ threads = <<>>
    /\ locks = [l \in {"stroke_cache", "texture"} |-> Unlocked]
    /\ writes = 0
    /\ entry = "default"
    /\ log = <<>>
    /\ returned = None
    /\ context_lost = FALSE
    /\ \E data \in ByteSequences : args = [data |-> data]
    /\ ret = None
    /\ call = Call("main", 0, 0)

\* The call allocator.create_image(&data).
CreateImage ==
    /\ ret = None
    /\ ret' = Some(create_image(args.data))
    /\ call' = Call("create_image", 0, 0)
    /\ UNCHANGED <<paths, lastReq, strokeLog, images, textures, uploads, blur_cache, fbo_size,
                   bottom_layer_dirty, scene, target, frame, sampled, sizes, aborted,
                   objects, deleted_textures, blurLog, result, destroyed, args>>
    /\ UNCHANGED lockVars
    /\ UNCHANGED frameVars

NextImage == CreateImage

SpecImage == InitImage /\ [][NextImage]_vars

(* ------------------------- create_image: claims ------------------------ *)

\* C29: create_image returns None, without a panic, for every byte sequence
\* that fails to decode; for one that decodes to a w x h image it returns an
\* image of width w and height h with exactly 4 * w * h bytes of pixels,
\* four per pixel of the decoded image in its order, the aspect ratio w / h,
\* and no texture.
C29_CreateImage ==
    call.op = "create_image" =>
        /\ ~aborted
        /\ ret /= None
        /\ ~Decodes(args.data) => ret[1] = None
        /\ Decodes(args.data) =>
               /\ ret[1] /= None
               /\ LET image == ret[1][1]
                      w == args.data[1]
                      h == args.data[2]
                  IN  /\ image.width = w
                      /\ image.height = h
                      /\ Len(image.pixels) = 4 * w * h
                      /\ \A i \in 1..(w * h) :
                             /\ image.pixels[4 * i - 3] = args.data[2 + i]
                             /\ image.pixels[4 * i - 2] = args.data[2 + i]
                             /\ image.pixels[4 * i - 1] = args.data[2 + i]
                             /\ image.pixels[4 * i] = MaxByte
                      /\ image.aspect_ratio[1] * h = image.aspect_ratio[2] * w
                      /\ image.aspect_ratio[2] > 0
                      /\ image.texture = None

\* The image of the test create_image_with_valid_png, two pixels wide and
\* one high: eight bytes and the aspect ratio 2.
C29_Witness ==
    /\ call.op = "create_image"
    /\ Decodes(args.data)
    /\ ret[1] /= None
    /\ ret[1][1].width = 2
    /\ ret[1][1].height = 1
    /\ Len(ret[1][1].pixels) = 8
    /\ ret[1][1].aspect_ratio = <<2, 1>>
    /\ ret[1][1].texture = None

====
